---- MODULE Spec2Model ----
(***************************************************************************)
(* The lazy-enrichment read path of the image hosting worker               *)
(* (src/src/index.js): handleImage, generateAndCache, generateAltTextOnce  *)
(* and sanitiseAltText, and its ingest path, handleUpload and isSafeUrl,   *)
(* over the stores they use: D1 (db), R2 (images), the Cache API (cache),  *)
(* the AI_QUOTA KV namespace (kv) and Workers AI.                          *)
(*                                                                         *)
(* Every await of the code is one atomic step of the request that makes   *)
(* it; the outcome of the awaited store call (a value, or a rejection) is  *)
(* the step's parameter.  An absent value is the empty sequence <<>> and a *)
(* present value v is <<v>>; a text is a sequence of one-character         *)
(* strings.                                                                *)
(***************************************************************************)
EXTENDS Naturals, Sequences, FiniteSets, TLC

\* ------------------------------------------------------------------ bounds
\* Concurrent request slots (each slot serves reads one after another).
NumRequests == 2
\* aiRuns counts env.AI.run invocations exactly below this cap and stays at
\* the cap from there on.
MaxAiRuns == 2
\* Concurrent POST /upload calls (each slot serves one call).
NumUploads == 2
\* Longest of the short model outputs that are enumerated in full.
MaxTextLen == 3
\* Concurrent requests of one client IP within one rate-limit window, on top
\* of those the window has already served.
NumLimited == 2

\* --------------------------------------------------------------- constants
CACHE_MAX_AGE == 3600
CACHE_PENDING_AGE == 60
ALT_TEXT_MAX_LEN == 500
MAX_IMAGE_BYTES == 10 * 1024 * 1024
RATE_LIMIT_MAX == 10
ALLOWED_TYPES == {"image/jpeg", "image/png", "image/gif", "image/webp", "image/avif"}

Requests == 1..NumRequests
\* The ids GET /images/:uuid is called with.
ImageIds == {"X"}

Uploads == 1..NumUploads
\* crypto.randomUUID() of upload u: an id no other call and no stored image has.
randomUUID(u) == ToString(u)
UploadIds == {randomUUID(u) : u \in Uploads}
AllIds == ImageIds \cup UploadIds

Limited == 1..NumLimited

\* ------------------------------------------------------------ sanitiseAltText
Whitespace == {" "}

\* The grave accent (U+0060), which a TLA+ string cannot hold.
GRAVE == "U+0060"

HTML_ESCAPE_MAP(c) ==
    CASE c = "&"  -> <<"&", "a", "m", "p", ";">>
      [] c = "<"  -> <<"&", "l", "t", ";">>
      [] c = ">"  -> <<"&", "g", "t", ";">>
      [] c = "\"" -> <<"&", "q", "u", "o", "t", ";">>
      [] c = "'"  -> <<"&", "#", "3", "9", ";">>
      [] c = GRAVE -> <<"&", "#", "9", "6", ";">>
      [] OTHER    -> <<c>>

RECURSIVE TrimStart(_)
TrimStart(s) ==
    IF s # <<>> /\ Head(s) \in Whitespace THEN TrimStart(Tail(s)) ELSE s

RECURSIVE TrimEnd(_)
TrimEnd(s) ==
    IF s # <<>> /\ s[Len(s)] \in Whitespace
    THEN TrimEnd(SubSeq(s, 1, Len(s) - 1))
    ELSE s

\* String.prototype.trim
Trim(s) == TrimEnd(TrimStart(s))

\* Index of the first character c of s from i on, 0 when there is none.
FirstIndex(s, c, i) ==
    LET at == {k \in i..Len(s) : s[k] = c} IN
    IF at = {} THEN 0 ELSE CHOOSE k \in at : \A m \in at : k <= m

\* Index of the first closing angle bracket of s from i on, 0 when there is none.
FirstGt(s, i) == FirstIndex(s, ">", i)

\* The tag-removing replace of line 67: leftmost matches, each from an opening
\* angle bracket to the first closing one after it.  An opening bracket with
\* no closing one after it starts no match, and then none after it does.
RECURSIVE StripTags(_)
StripTags(s) ==
    LET lt == FirstIndex(s, "<", 1)
        gt == IF lt = 0 THEN 0 ELSE FirstGt(s, lt + 1)
    IN  IF gt = 0 THEN s
        ELSE SubSeq(s, 1, lt - 1) \o StripTags(SubSeq(s, gt + 1, Len(s)))

\* The escaping replace of line 68: each special character by its entity
\* (the text is escaped half by half).
RECURSIVE EscapeHtml(_)
EscapeHtml(s) ==
    IF s = <<>> THEN <<>>
    ELSE IF Len(s) = 1 THEN HTML_ESCAPE_MAP(s[1])
    ELSE EscapeHtml(SubSeq(s, 1, Len(s) \div 2))
            \o EscapeHtml(SubSeq(s, Len(s) \div 2 + 1, Len(s)))

\* .slice(0, n)
Slice(s, n) == SubSeq(s, 1, IF Len(s) < n THEN Len(s) ELSE n)

sanitiseAltTextSliceFirst(raw) ==
    EscapeHtml(Slice(StripTags(Trim(raw)), ALT_TEXT_MAX_LEN))

sanitiseAltText(raw) ==
    Slice(EscapeHtml(StripTags(Trim(raw))), ALT_TEXT_MAX_LEN)

\* ------------------------------------------------------------------ isSafeUrl
\* A URL is the sequence of its characters.
HTTP == <<"h", "t", "t", "p", ":", "/", "/">>
HTTPS == <<"h", "t", "t", "p", "s", ":", "/", "/">>

StartsWith(s, p) == Len(s) >= Len(p) /\ SubSeq(s, 1, Len(p)) = p

\* Line 1388: the test of the scheme, which asks for http or https, the two
\* slashes and at least one more character.
HasHttpScheme(s) ==
    \/ StartsWith(s, HTTP) /\ Len(s) > Len(HTTP)
    \/ StartsWith(s, HTTPS) /\ Len(s) > Len(HTTPS)

\* The characters of s before the first one that is in stop.
RECURSIVE Before(_, _)
Before(s, stop) ==
    IF s = <<>> \/ Head(s) \in stop THEN <<>>
    ELSE <<Head(s)>> \o Before(Tail(s), stop)

\* new URL(urlStr).hostname for an http(s) URL without userinfo, written in
\* lower case and with a dotted IPv4 address in canonical form: the host
\* ends at the port, path, query or fragment, and an IPv6 literal keeps its
\* square brackets.
Hostname(urlStr) ==
    LET rest == IF StartsWith(urlStr, HTTPS)
                THEN SubSeq(urlStr, Len(HTTPS) + 1, Len(urlStr))
                ELSE SubSeq(urlStr, Len(HTTP) + 1, Len(urlStr))
    IN  IF rest # <<>> /\ Head(rest) = "["
        THEN IF "]" \in {rest[i] : i \in 1..Len(rest)}
             THEN Before(rest, {"]"}) \o <<"]">>
             ELSE <<>>
        ELSE Before(rest, {":", "/", "?", "#"})

Digits == {"0", "1", "2", "3", "4", "5", "6", "7", "8", "9"}

\* Line 1491: 172. followed by 16 to 31 and a dot.
IsClassB(h) ==
    /\ StartsWith(h, <<"1", "7", "2", ".">>)
    /\ Len(h) >= 7
    /\ h[7] = "."
    /\ \/ h[5] = "1" /\ h[6] \in {"6", "7", "8", "9"}
       \/ h[5] = "2" /\ h[6] \in Digits
       \/ h[5] = "3" /\ h[6] \in {"0", "1"}

\* Lines 1485-1497; a URL the parser rejects has no host here.
isSafeUrl(urlStr) ==
    LET hostname == Hostname(urlStr) IN
    /\ hostname # <<>>
    /\ ~StartsWith(hostname, <<"l", "o", "c", "a", "l", "h", "o", "s", "t">>)
    /\ ~StartsWith(hostname, <<"1", "2", "7", ".">>)
    /\ ~StartsWith(hostname, <<"0", ".", "0", ".", "0", ".", "0">>)
    /\ ~StartsWith(hostname, <<":", ":", "1">>)
    /\ ~StartsWith(hostname, <<"1", "6", "9", ".", "2", "5", "4", ".">>)
    /\ ~StartsWith(hostname, <<"1", "0", ".">>)
    /\ ~IsClassB(hostname)
    /\ ~StartsWith(hostname, <<"1", "9", "2", ".", "1", "6", "8", ".">>)

\* The url fields POST /upload is called with.
UrlA == HTTPS \o <<"a", ".", "c", "o", "/", "x">>
UrlB == HTTP \o <<"b", ".", "c", "o">>
UrlPadded == <<" ">> \o UrlA \o <<" ">>
UrlNoScheme == <<"f", "t", "p", ":", "/", "/", "a">>
UrlLocalhost == HTTP \o <<"l", "o", "c", "a", "l", "h", "o", "s", "t", ":", "8", "0">>
UrlLoopback == HTTP \o <<"1", "2", "7", ".", "0", ".", "0", ".", "1", "/">>
UrlLoopbackV6 == HTTP \o <<"[", ":", ":", "1", "]", "/">>
UrlLinkLocal == HTTP \o <<"1", "6", "9", ".", "2", "5", "4", ".", "1", ".", "1">>
UrlClassA == HTTPS \o <<"1", "0", ".", "0", ".", "0", ".", "1">>
UrlClassB == HTTP \o <<"1", "7", "2", ".", "1", "6", ".", "0", ".", "1">>
UrlClassC == HTTP \o <<"1", "9", "2", ".", "1", "6", "8", ".", "0", ".", "1">>

Urls ==
    {UrlA, UrlB, UrlPadded, <<>>, UrlNoScheme, UrlLocalhost, UrlLoopback,
     UrlLoopbackV6, UrlLinkLocal, UrlClassA, UrlClassB, UrlClassC}

\* The URL image X was ingested from.
UrlX == HTTPS \o <<"x">>

\* ------------------------------------------------------------------ values
\* What env.AI.run can resolve to as result.response; the empty text also
\* stands for a result without a response field.
AiResponses ==
    { <<>>,
      <<" ", "a", " ">>,
      <<"<", "i", ">">>,
      <<"b", "&">> }

PENDING_ALT_TEXT == <<"Pending - description being generated">>

CacheControlReady == <<"public, max-age=", CACHE_MAX_AGE>>
CacheControlPending ==
    <<"public, max-age=", CACHE_PENDING_AGE, ", stale-while-revalidate=300">>

\* The R2 object written by ingest for an image.
StoredObject == [bytes |-> "bytes", contentType |-> "image/png"]

\* jsonError(message, status)
jsonError(message, status) ==
    [status |-> status, body |-> message, Content_Type |-> "application/json",
     X_Alt_Text |-> <<>>, Cache_Control |-> <<>>, X_Image_Id |-> ""]

\* The 200 response of handleImage for altText and the R2 object.
ImageResponse(imageId, altText, obj) ==
    [status |-> 200, body |-> obj.bytes, Content_Type |-> obj.contentType,
     X_Alt_Text |-> IF altText # <<>> THEN altText ELSE PENDING_ALT_TEXT,
     Cache_Control |-> IF altText # <<>> THEN CacheControlReady
                       ELSE CacheControlPending,
     X_Image_Id |-> imageId]

\* The cache entry generateAndCache builds from the response and the re-read row.
EnrichedResponseStaleDirective(response, alt_text) ==
    [response EXCEPT !.status = 200, !.X_Alt_Text = alt_text]

\* A variant of EnrichedResponse that rebuilds the entry without the body.
EnrichedResponseWithoutBody(response, alt_text) ==
    [response EXCEPT !.status = 200, !.body = "", !.X_Alt_Text = alt_text,
                     !.Cache_Control = CacheControlReady]

EnrichedResponse(response, alt_text) ==
    [response EXCEPT !.status = 200, !.X_Alt_Text = alt_text,
                     !.Cache_Control = CacheControlReady]

\* A row of the images table as the upsert of generateAltTextOnce inserts it
\* (no source_url, created_at by the column default); <<>> is NULL.  A
\* timestamp is the statement whose datetime('now') set it.
Row(alt_text) ==
    [source_url |-> <<>>, alt_text |-> alt_text,
     created_at |-> <<"upsert">>, updated_at |-> <<"upsert">>]

\* The row handleUpload inserts (lines 1462-1468).
IngestedRow(source_url) ==
    [source_url |-> <<source_url>>, alt_text |-> <<>>,
     created_at |-> <<"insert">>, updated_at |-> <<>>]

\* DO UPDATE SET alt_text = excluded.alt_text, updated_at = excluded.updated_at
\* on an existing row (lines 1303-1305).
Updated(row, alt_text) ==
    [row EXCEPT !.alt_text = alt_text, !.updated_at = <<"upsert">>]

\* Line 1206: the row's alt_text when the lookup was fulfilled with a row
\* whose alt_text is not NULL, the empty text otherwise.
AltTextOf(d1) ==
    IF d1.status = "fulfilled" /\ d1.value # <<>>
    THEN d1.value[1].alt_text
    ELSE <<>>

Unsettled == [status |-> "unsettled", value |-> <<>>]
Rejected == [status |-> "rejected", value |-> <<>>]
Fulfilled(v) == [status |-> "fulfilled", value |-> v]

\* ------------------------------------------------------------------- state
VARIABLES
    db,         \* D1 images table: image id -> <<>> or <<row>>
    images,     \* R2 bucket: image id -> <<>> or <<object>>
    cache,      \* caches.default: image id (the read identity) -> <<>> or <<response>>
    kv,         \* AI_QUOTA: whether key ai:<imageId> is present
    aiRuns,     \* env.AI.run invocations so far, per image (exact below MaxAiRuns)
    pc,         \* each request's position
    imageId,    \* the image a request reads
    d1Result,   \* the D1 promise of Promise.allSettled
    r2Result,   \* the R2 promise of Promise.allSettled
    response,   \* <<>> until handleImage has its response, then <<response>>
    altText,    \* generateAltTextOnce's sanitised text, until it is upserted
    toPut,      \* the response the request's cache.put will write
    up,         \* each handleUpload call: its position, locals and response
    rl          \* the rate limiter: the RATE_LIMIT key of one IP and window,
                \* the requests that passed, and each request's rateLimit call

vars == <<db, images, cache, kv, aiRuns, pc, imageId, d1Result, r2Result,
          response, altText, toPut, up, rl>>

\* A handleUpload call that has not arrived.
IdleUpload ==
    [pc |-> "idle", sourceUrl |-> <<>>, mimeType |-> "", imageId |-> <<>>,
     response |-> <<>>]

\* The store states ingest leaves for an id: never ingested, ingested (blob
\* and row with alt_text NULL), and the orphan blob of a failed insert whose
\* rollback delete failed.
InitStores ==
    { [row |-> <<>>, obj |-> <<>>],
      [row |-> <<IngestedRow(UrlX)>>, obj |-> <<StoredObject>>],
      [row |-> <<>>, obj |-> <<StoredObject>>] }

\* A request of the IP that has not arrived at the router.
IdleLimited ==
    [pc |-> "idle", isApiPath |-> FALSE, count |-> 0, logged |-> FALSE,
     response |-> <<>>]

\* No request of the IP in the window yet: the key rl:<ip>:<win> is absent.
NoTraffic == [value |-> <<>>, passed |-> 0, req |-> [l \in Limited |-> IdleLimited]]

\* No cache entry, no lock, no request yet.
InitIdle ==
    /\ rl = NoTraffic
    /\ cache = [i \in AllIds |-> <<>>]
    /\ kv = [i \in AllIds |-> FALSE]
    /\ aiRuns = [i \in AllIds |-> 0]
    /\ pc = [r \in Requests |-> "idle"]
    /\ imageId = [r \in Requests |-> CHOOSE i \in ImageIds : TRUE]
    /\ d1Result = [r \in Requests |-> Unsettled]
    /\ r2Result = [r \in Requests |-> Unsettled]
    /\ response = [r \in Requests |-> <<>>]
    /\ altText = [r \in Requests |-> <<>>]
    /\ toPut = [r \in Requests |-> <<>>]
    /\ up = [u \in Uploads |-> IdleUpload]

Init ==
    /\ \E st \in [ImageIds -> InitStores] :
          /\ db = [i \in AllIds |-> IF i \in ImageIds THEN st[i].row ELSE <<>>]
          /\ images = [i \in AllIds |-> IF i \in ImageIds THEN st[i].obj ELSE <<>>]
    /\ InitIdle

\* Whether the images table holds a description for the id.
HasAltText(id) == db[id] # <<>> /\ db[id][1].alt_text # <<>>

\* One more env.AI.run invocation for the id.
CountAiRun(id) ==
    aiRuns' = [aiRuns EXCEPT ![id] = IF @ < MaxAiRuns THEN @ + 1 ELSE @]

\* ------------------------------------------------------------- handleImage
\* A GET /images/:uuid arrives and awaits cache.match (lines 1183-1187): a hit
\* is returned as it is, a miss issues the D1 and R2 reads.
HandleImageNoShortCircuit(r, id) ==
    /\ pc[r] \in {"idle", "done"}
    /\ imageId' = [imageId EXCEPT ![r] = id]
    /\ d1Result' = [d1Result EXCEPT ![r] = Unsettled]
    /\ r2Result' = [r2Result EXCEPT ![r] = Unsettled]
    /\ altText' = [altText EXCEPT ![r] = <<>>]
    /\ toPut' = [toPut EXCEPT ![r] = <<>>]
    /\ response' = [response EXCEPT ![r] = cache[id]]
    /\ pc' = [pc EXCEPT ![r] = "fetch"]
    /\ UNCHANGED <<db, images, cache, kv, aiRuns>>
    /\ UNCHANGED <<up, rl>>

HandleImage(r, id) ==
    /\ pc[r] \in {"idle", "done"}
    /\ imageId' = [imageId EXCEPT ![r] = id]
    /\ d1Result' = [d1Result EXCEPT ![r] = Unsettled]
    /\ r2Result' = [r2Result EXCEPT ![r] = Unsettled]
    /\ altText' = [altText EXCEPT ![r] = <<>>]
    /\ toPut' = [toPut EXCEPT ![r] = <<>>]
    /\ IF cache[id] # <<>>
       THEN /\ response' = [response EXCEPT ![r] = cache[id]]
            /\ pc' = [pc EXCEPT ![r] = "done"]
       ELSE /\ response' = [response EXCEPT ![r] = <<>>]
            /\ pc' = [pc EXCEPT ![r] = "fetch"]
    /\ UNCHANGED <<db, images, cache, kv, aiRuns>>
    /\ UNCHANGED <<up, rl>>

\* Lines 1194-1222: the response handleImage builds from the two settled
\* promises.
ResponseOfD1Fatal(id, d1, r2) ==
    IF r2.status = "rejected" THEN jsonError("Storage unavailable", 503)
    ELSE IF d1.status = "rejected" THEN jsonError("Database unavailable", 503)
    ELSE IF r2.value = <<>> THEN jsonError("Image not found", 404)
    ELSE ImageResponse(id, AltTextOf(d1), r2.value[1])

ResponseOf(id, d1, r2) ==
    IF r2.status = "rejected" THEN jsonError("Storage unavailable", 503)
    ELSE IF r2.value = <<>> THEN jsonError("Image not found", 404)
    ELSE ImageResponse(id, AltTextOf(d1), r2.value[1])

\* Lines 1194-1232, run when both promises have settled: the response, and
\* what the request leaves to ctx.waitUntil (nothing after an error response,
\* the cache.put of the response when it has a description, generateAndCache
\* otherwise).
RespondAfterBackground(r, d1, r2) ==
    LET resp == ResponseOf(imageId[r], d1, r2) IN
    IF resp.status # 200
    THEN /\ response' = [response EXCEPT ![r] = <<resp>>]
         /\ pc' = [pc EXCEPT ![r] = "done"]
         /\ UNCHANGED toPut
    ELSE IF AltTextOf(d1) # <<>>
    THEN /\ response' = [response EXCEPT ![r] = <<resp>>]
         /\ pc' = [pc EXCEPT ![r] = "cache.put"]
         /\ toPut' = [toPut EXCEPT ![r] = <<resp>>]
    ELSE /\ pc' = [pc EXCEPT ![r] = "kv.get"]
         /\ UNCHANGED <<response, toPut>>

RespondWithoutCachePut(r, d1, r2) ==
    LET resp == ResponseOf(imageId[r], d1, r2) IN
    /\ response' = [response EXCEPT ![r] = <<resp>>]
    /\ IF resp.status # 200 \/ AltTextOf(d1) # <<>>
       THEN /\ pc' = [pc EXCEPT ![r] = "done"]
            /\ UNCHANGED toPut
       ELSE /\ pc' = [pc EXCEPT ![r] = "kv.get"]
            /\ UNCHANGED toPut

RespondEnrichOnError(r, d1, r2) ==
    LET resp == ResponseOf(imageId[r], d1, r2) IN
    /\ response' = [response EXCEPT ![r] = <<resp>>]
    /\ IF resp.status = 200 /\ AltTextOf(d1) # <<>>
       THEN /\ pc' = [pc EXCEPT ![r] = "cache.put"]
            /\ toPut' = [toPut EXCEPT ![r] = <<resp>>]
       ELSE /\ pc' = [pc EXCEPT ![r] = "kv.get"]
            /\ UNCHANGED toPut

\* A variant of Respond that leaves the cache.put of the response to the
\* background whatever its status.
RespondCachesErrors(r, d1, r2) ==
    LET resp == ResponseOf(imageId[r], d1, r2) IN
    /\ response' = [response EXCEPT ![r] = <<resp>>]
    /\ IF resp.status # 200 \/ AltTextOf(d1) # <<>>
       THEN /\ pc' = [pc EXCEPT ![r] = "cache.put"]
            /\ toPut' = [toPut EXCEPT ![r] = <<resp>>]
       ELSE /\ pc' = [pc EXCEPT ![r] = "kv.get"]
            /\ UNCHANGED toPut

\* A variant of Respond that starts generateAndCache for every 200 response.
RespondAlwaysEnriches(r, d1, r2) ==
    LET resp == ResponseOf(imageId[r], d1, r2) IN
    /\ response' = [response EXCEPT ![r] = <<resp>>]
    /\ IF resp.status # 200
       THEN /\ pc' = [pc EXCEPT ![r] = "done"]
            /\ UNCHANGED toPut
       ELSE /\ pc' = [pc EXCEPT ![r] = "kv.get"]
            /\ UNCHANGED toPut

Respond(r, d1, r2) ==
    LET resp == ResponseOf(imageId[r], d1, r2) IN
    /\ response' = [response EXCEPT ![r] = <<resp>>]
    /\ IF resp.status # 200
       THEN /\ pc' = [pc EXCEPT ![r] = "done"]
            /\ UNCHANGED toPut
       ELSE IF AltTextOf(d1) # <<>>
       THEN /\ pc' = [pc EXCEPT ![r] = "cache.put"]
            /\ toPut' = [toPut EXCEPT ![r] = <<resp>>]
       ELSE /\ pc' = [pc EXCEPT ![r] = "kv.get"]
            /\ UNCHANGED toPut

\* env.DB ... SELECT alt_text ... first() settles (line 1190).
D1Select(r, ok) ==
    /\ pc[r] = "fetch"
    /\ d1Result[r].status = "unsettled"
    /\ LET d1 == IF ok THEN Fulfilled(db[imageId[r]]) ELSE Rejected IN
       /\ d1Result' = [d1Result EXCEPT ![r] = d1]
       /\ IF r2Result[r].status # "unsettled"
          THEN Respond(r, d1, r2Result[r])
          ELSE UNCHANGED <<pc, response, toPut>>
    /\ UNCHANGED <<db, images, cache, kv, aiRuns, imageId, r2Result, altText>>
    /\ UNCHANGED <<up, rl>>

\* env.IMAGES.get settles (line 1191).
R2Get(r, ok) ==
    /\ pc[r] = "fetch"
    /\ r2Result[r].status = "unsettled"
    /\ LET r2 == IF ok THEN Fulfilled(images[imageId[r]]) ELSE Rejected IN
       /\ r2Result' = [r2Result EXCEPT ![r] = r2]
       /\ IF d1Result[r].status # "unsettled"
          THEN Respond(r, d1Result[r], r2)
          ELSE UNCHANGED <<pc, response, toPut>>
    /\ UNCHANGED <<db, images, cache, kv, aiRuns, imageId, d1Result, altText>>
    /\ UNCHANGED <<up, rl>>

\* ----------------------------------------------------- generateAltTextOnce
\* A variant of KvGet that goes on to the lock write and the inference call
\* although the lock key is present.
KvGetIgnoresLock(r, ok) ==
    /\ pc[r] = "kv.get"
    /\ IF ~ok
       THEN /\ pc' = [pc EXCEPT ![r] = "ai.run"]
            /\ CountAiRun(imageId[r])
       ELSE /\ pc' = [pc EXCEPT ![r] = "kv.put"]
            /\ UNCHANGED aiRuns
    /\ UNCHANGED <<db, images, cache, kv, imageId, d1Result, r2Result, response,
                   altText, toPut>>
    /\ UNCHANGED <<up, rl>>

\* A variant of KvGet in which a rejected env.AI_QUOTA.get ends the task.
KvGetAbortOnError(r, ok) ==
    /\ pc[r] = "kv.get"
    /\ pc' = [pc EXCEPT ![r] = IF ~ok THEN "done"
                               ELSE IF kv[imageId[r]] THEN "db.reselect" ELSE "kv.put"]
    /\ UNCHANGED <<db, images, cache, kv, aiRuns, imageId, d1Result, r2Result,
                   response, altText, toPut>>
    /\ UNCHANGED <<up, rl>>

\* env.AI_QUOTA.get settles (lines 1268-1269, 1271-1273): a lock that is held
\* ends generateAltTextOnce, a rejection is logged and the model is called.
KvGet(r, ok) ==
    /\ pc[r] = "kv.get"
    /\ IF ~ok
       THEN /\ pc' = [pc EXCEPT ![r] = "ai.run"]
            /\ CountAiRun(imageId[r])
               ELSE /\ pc' = [pc EXCEPT ![r] = IF kv[imageId[r]] THEN "db.reselect" ELSE "kv.put"]
                    /\ UNCHANGED aiRuns
    /\ UNCHANGED <<db, images, cache, kv, imageId, d1Result, r2Result, response,
                   altText, toPut>>
    /\ UNCHANGED <<up, rl>>

\* A variant of KvPut that goes to env.AI.run without writing the lock key.
KvPutWritesNothing(r, ok) ==
    /\ pc[r] = "kv.put"
    /\ pc' = [pc EXCEPT ![r] = "ai.run"]
    /\ CountAiRun(imageId[r])
    /\ UNCHANGED <<db, images, cache, kv, imageId, d1Result, r2Result, response,
                   altText, toPut>>
    /\ UNCHANGED <<up, rl>>

\* env.AI_QUOTA.put settles (line 1270), and env.AI.run is called (line 1277).
KvPut(r, ok) ==
    /\ pc[r] = "kv.put"
    /\ kv' = IF ok THEN [kv EXCEPT ![imageId[r]] = TRUE] ELSE kv
    /\ pc' = [pc EXCEPT ![r] = "ai.run"]
    /\ CountAiRun(imageId[r])
    /\ UNCHANGED <<db, images, cache, imageId, d1Result, r2Result, response,
                   altText, toPut>>
    /\ UNCHANGED <<up, rl>>

\* What env.AI.run settles to: a rejection <<>>, or <<text>> for a result
\* whose response is text.
AiResults == {<<>>} \cup {<<t>> : t \in AiResponses}

\* A variant of Upsert that replaces the whole row (INSERT OR REPLACE).
UpsertReplacesRow(id, text) == [db EXCEPT ![id] = <<Row(text)>>]

\* A variant of Upsert that only updates (UPDATE ... WHERE id = ?).
UpdateOnly(id, text) ==
    [db EXCEPT ![id] = IF @ = <<>> THEN <<>> ELSE <<Updated(@[1], text)>>]

\* INSERT ... ON CONFLICT(id) DO UPDATE SET alt_text (lines 1299-1308).
Upsert(id, text) ==
    [db EXCEPT ![id] = IF @ = <<>> THEN <<Row(text)>>
                       ELSE <<Updated(@[1], text)>>]

\* A variant of AiRun without the test of lines 1294-1297: an empty sanitised
\* text goes to the upsert as any other.
AiRunUpsertsEmpty(r, result) ==
    /\ pc[r] = "ai.run"
    /\ IF result = <<>>
       THEN /\ pc' = [pc EXCEPT ![r] = "db.reselect"]
            /\ UNCHANGED altText
       ELSE /\ pc' = [pc EXCEPT ![r] = "db.upsert"]
            /\ altText' = [altText EXCEPT ![r] = sanitiseAltText(Trim(result[1]))]
    /\ UNCHANGED <<db, images, cache, kv, aiRuns, imageId, d1Result, r2Result,
                   response, toPut>>
    /\ UNCHANGED <<up, rl>>

\* A variant of AiRun that hands the trimmed text of the model to the upsert
\* as it is.
AiRunStoresRaw(r, result) ==
    /\ pc[r] = "ai.run"
    /\ LET text == IF result = <<>> THEN <<>> ELSE Trim(result[1]) IN
       IF text = <<>>
       THEN /\ pc' = [pc EXCEPT ![r] = "db.reselect"]
            /\ UNCHANGED altText
       ELSE /\ pc' = [pc EXCEPT ![r] = "db.upsert"]
            /\ altText' = [altText EXCEPT ![r] = text]
    /\ UNCHANGED <<db, images, cache, kv, aiRuns, imageId, d1Result, r2Result,
                   response, toPut>>
    /\ UNCHANGED <<up, rl>>

\* A variant of AiRun that stores the placeholder as the description when the
\* call fails, instead of ending generateAltTextOnce.
AiRunPersistsOnFailure(r, result) ==
    /\ pc[r] = "ai.run"
    /\ LET text == IF result = <<>> THEN <<>> ELSE sanitiseAltText(Trim(result[1])) IN
       IF text = <<>>
       THEN /\ pc' = [pc EXCEPT ![r] = "db.reselect"]
            /\ db' = Upsert(imageId[r], PENDING_ALT_TEXT)
            /\ UNCHANGED altText
       ELSE /\ pc' = [pc EXCEPT ![r] = "db.upsert"]
            /\ altText' = [altText EXCEPT ![r] = text]
            /\ UNCHANGED db
    /\ UNCHANGED <<images, cache, kv, aiRuns, imageId, d1Result, r2Result,
                   response, toPut>>
    /\ UNCHANGED <<up, rl>>

\* env.AI.run settles (lines 1277-1297, 1310-1312): a rejection and an empty
\* sanitised text end generateAltTextOnce, any other text goes to the upsert.
AiRun(r, result) ==
    /\ pc[r] = "ai.run"
    /\ LET text == IF result = <<>> THEN <<>> ELSE sanitiseAltText(Trim(result[1])) IN
       IF text = <<>>
       THEN /\ pc' = [pc EXCEPT ![r] = "db.reselect"]
            /\ UNCHANGED altText
       ELSE /\ pc' = [pc EXCEPT ![r] = "db.upsert"]
            /\ altText' = [altText EXCEPT ![r] = text]
    /\ UNCHANGED <<db, images, cache, kv, aiRuns, imageId, d1Result, r2Result,
                   response, toPut>>
    /\ UNCHANGED <<up, rl>>

\* The upsert settles (lines 1299-1312).
D1Upsert(r, ok) ==
    /\ pc[r] = "db.upsert"
    /\ db' = IF ok THEN Upsert(imageId[r], altText[r]) ELSE db
    /\ altText' = [altText EXCEPT ![r] = <<>>]
    /\ pc' = [pc EXCEPT ![r] = "db.reselect"]
    /\ UNCHANGED <<images, cache, kv, aiRuns, imageId, d1Result, r2Result,
                   response, toPut>>
    /\ UNCHANGED <<up, rl>>

\* -------------------------------------------------------- generateAndCache
\* The re-read of alt_text settles (lines 1239-1258): the entry to write is
\* the enriched one when the row has a description, the response otherwise.
D1Reselect(r, ok) ==
    /\ pc[r] = "db.reselect"
    /\ toPut' = [toPut EXCEPT ![r] =
                    IF ok /\ HasAltText(imageId[r])
                    THEN <<EnrichedResponse(response[r][1], db[imageId[r]][1].alt_text)>>
                    ELSE response[r]]
    /\ pc' = [pc EXCEPT ![r] = "cache.put"]
    /\ UNCHANGED <<db, images, cache, kv, aiRuns, imageId, d1Result, r2Result,
                   response, altText>>
    /\ UNCHANGED <<up, rl>>

\* cache.put settles (lines 1225, 1251-1253, 1260).
CachePut(r) ==
    /\ pc[r] = "cache.put"
    /\ cache' = [cache EXCEPT ![imageId[r]] = toPut[r]]
    /\ toPut' = [toPut EXCEPT ![r] = <<>>]
    /\ pc' = [pc EXCEPT ![r] = "done"]
    /\ UNCHANGED <<db, images, kv, aiRuns, imageId, d1Result, r2Result,
                   response, altText>>
    /\ UNCHANGED <<up, rl>>

\* cache.put rejects.  The put of handleImage (line 1225) and the fallback put
\* (line 1260) are the last call of their task, which ends with no entry
\* written.  A rejection of the enriched put (lines 1250-1253) is caught and
\* logged (lines 1256-1258) and the fallback put follows, with the response
\* whose body line 1250 has read: the Cache API rejects a response whose body
\* is used, so this put writes no entry either.
CachePutRejects(r) ==
    /\ pc[r] = "cache.put"
    /\ toPut' = [toPut EXCEPT ![r] = <<>>]
    /\ pc' = [pc EXCEPT ![r] = "done"]
    /\ UNCHANGED <<db, images, cache, kv, aiRuns, imageId, d1Result, r2Result,
                   response, altText>>
    /\ UNCHANGED <<up, rl>>

\* -------------------------------------------------------------- the platform
\* The Cache API drops an entry whose freshness has run out (or is purged).
CacheExpire(id) ==
    /\ cache[id] # <<>>
    /\ cache' = [cache EXCEPT ![id] = <<>>]
    /\ UNCHANGED <<db, images, kv, aiRuns, pc, imageId, d1Result, r2Result,
                   response, altText, toPut>>
    /\ UNCHANGED <<up, rl>>

\* A variant of KvExpire for a lock key that is never dropped.
KvEntryNeverExpires(id) ==
    /\ kv[id]
    /\ UNCHANGED vars

\* KV drops the lock key when its expirationTtl (AI_DEDUPE_TTL) has passed.
KvExpire(id) ==
    /\ kv[id]
    /\ kv' = [kv EXCEPT ![id] = FALSE]
    /\ UNCHANGED <<db, images, cache, aiRuns, pc, imageId, d1Result, r2Result,
                   response, altText, toPut>>
    /\ UNCHANGED <<up, rl>>

Next ==
    \/ \E r \in Requests, id \in ImageIds : HandleImage(r, id)
    \/ \E r \in Requests, ok \in BOOLEAN : D1Select(r, ok)
    \/ \E r \in Requests, ok \in BOOLEAN : R2Get(r, ok)
    \/ \E r \in Requests, ok \in BOOLEAN : KvGet(r, ok)
    \/ \E r \in Requests, ok \in BOOLEAN : KvPut(r, ok)
    \/ \E r \in Requests, result \in AiResults : AiRun(r, result)
    \/ \E r \in Requests, ok \in BOOLEAN : D1Upsert(r, ok)
    \/ \E r \in Requests, ok \in BOOLEAN : D1Reselect(r, ok)
    \/ \E r \in Requests : CachePut(r)
    \/ \E id \in ImageIds : CacheExpire(id)
    \/ \E id \in ImageIds : KvExpire(id)

Spec == Init /\ [][Next]_vars

\* ------------------------------------------------- a burst on a cold image
\* NumRequests reads of one ingested, never read image, one per request slot,
\* with the blob store and the lock store answering and no entry expiring.
InitCold ==
    /\ Init
    /\ \A id \in ImageIds : db[id] = <<IngestedRow(UrlX)>> /\ images[id] = <<StoredObject>>

FirstRead(r, id) == pc[r] = "idle" /\ HandleImage(r, id)

NextCold ==
    \/ \E r \in Requests, id \in ImageIds : FirstRead(r, id)
    \/ \E r \in Requests, ok \in BOOLEAN : D1Select(r, ok)
    \/ \E r \in Requests : R2Get(r, TRUE)
    \/ \E r \in Requests : KvGet(r, TRUE)
    \/ \E r \in Requests : KvPut(r, TRUE)
    \/ \E r \in Requests, result \in AiResults : AiRun(r, result)
    \/ \E r \in Requests, ok \in BOOLEAN : D1Upsert(r, ok)
    \/ \E r \in Requests, ok \in BOOLEAN : D1Reselect(r, ok)
    \/ \E r \in Requests : CachePut(r)

SpecCold == InitCold /\ [][NextCold]_vars

\* --------------------------------------- reads of an image with a description
\* The texts generateAltTextOnce can persist.
Descriptions == {sanitiseAltText(Trim(t)) : t \in AiResponses} \ {<<>>}

\* An image whose description was persisted by an earlier background task,
\* with no request in flight; aiRuns counts from here.  The lock store
\* answers; reads arrive at any time, and any other call may fail.
InitPersisted ==
    /\ InitIdle
    /\ \E text \in Descriptions :
          db = [id \in AllIds |->
                  IF id \in ImageIds
                  THEN <<Updated(IngestedRow(UrlX), text)>>
                  ELSE <<>>]
    /\ images = [id \in AllIds |-> IF id \in ImageIds THEN <<StoredObject>> ELSE <<>>]

NextPersisted ==
    \/ \E r \in Requests, id \in ImageIds : HandleImage(r, id)
    \/ \E r \in Requests, ok \in BOOLEAN : D1Select(r, ok)
    \/ \E r \in Requests, ok \in BOOLEAN : R2Get(r, ok)
    \/ \E r \in Requests : KvGet(r, TRUE)
    \/ \E r \in Requests : KvPut(r, TRUE)
    \/ \E r \in Requests, result \in AiResults : AiRun(r, result)
    \/ \E r \in Requests, ok \in BOOLEAN : D1Upsert(r, ok)
    \/ \E r \in Requests, ok \in BOOLEAN : D1Reselect(r, ok)
    \/ \E r \in Requests : CachePut(r)
    \/ \E id \in ImageIds : CacheExpire(id)
    \/ \E id \in ImageIds : KvExpire(id)

SpecPersisted == InitPersisted /\ [][NextPersisted]_vars

\* ------------------------------------------------- every store call succeeds
\* Reads of an ingested image while D1, R2 and the lock store answer every
\* call; the model may return any text or fail, and entries expire.
NextHealthy ==
    \/ \E r \in Requests, id \in ImageIds : HandleImage(r, id)
    \/ \E r \in Requests : D1Select(r, TRUE)
    \/ \E r \in Requests : R2Get(r, TRUE)
    \/ \E r \in Requests : KvGet(r, TRUE)
    \/ \E r \in Requests : KvPut(r, TRUE)
    \/ \E r \in Requests, result \in AiResults : AiRun(r, result)
    \/ \E r \in Requests : D1Upsert(r, TRUE)
    \/ \E r \in Requests : D1Reselect(r, TRUE)
    \/ \E r \in Requests : CachePut(r)
    \/ \E id \in ImageIds : CacheExpire(id)
    \/ \E id \in ImageIds : KvExpire(id)

SpecHealthy == InitCold /\ [][NextHealthy]_vars

\* ------------------------------------------ a task whose inference fails
\* Reads of an ingested image with every store call succeeding, where the
\* inference calls of the tasks of one request slot, FailingRequest, all
\* fail: env.AI.run rejects or its text sanitises to nothing. The tasks of
\* that slot find the lock free, so each of them reaches env.AI.run.
FailingRequest == CHOOSE r \in Requests : TRUE

FailedResults ==
    {result \in AiResults :
        result = <<>> \/ sanitiseAltText(Trim(result[1])) = <<>>}

KvGetFree(r) == ~kv[imageId[r]] /\ KvGet(r, TRUE)

AiRunFailing(r, result) ==
    /\ r = FailingRequest => result \in FailedResults
    /\ AiRun(r, result)

NextFailingTask ==
    \/ \E r \in Requests, id \in ImageIds : HandleImage(r, id)
    \/ \E r \in Requests : D1Select(r, TRUE)
    \/ \E r \in Requests : R2Get(r, TRUE)
    \/ KvGetFree(FailingRequest)
    \/ \E r \in Requests \ {FailingRequest} : KvGet(r, TRUE)
    \/ \E r \in Requests : KvPut(r, TRUE)
    \/ \E r \in Requests, result \in AiResults : AiRunFailing(r, result)
    \/ \E r \in Requests : D1Upsert(r, TRUE)
    \/ \E r \in Requests : D1Reselect(r, TRUE)
    \/ \E r \in Requests : CachePut(r)
    \/ \E id \in ImageIds : CacheExpire(id)
    \/ \E id \in ImageIds : KvExpire(id)

SpecFailingTask == InitCold /\ [][NextFailingTask]_vars

\* ------------------------------------------------- the cache rejects a put
\* Reads of an ingested image with D1, R2 and the lock store answering every
\* call, where a cache.put may reject.
NextCacheErrors ==
    \/ \E r \in Requests, id \in ImageIds : HandleImage(r, id)
    \/ \E r \in Requests : D1Select(r, TRUE)
    \/ \E r \in Requests : R2Get(r, TRUE)
    \/ \E r \in Requests : KvGet(r, TRUE)
    \/ \E r \in Requests : KvPut(r, TRUE)
    \/ \E r \in Requests, result \in AiResults : AiRun(r, result)
    \/ \E r \in Requests : D1Upsert(r, TRUE)
    \/ \E r \in Requests : D1Reselect(r, TRUE)
    \/ \E r \in Requests : CachePut(r)
    \/ \E r \in Requests : CachePutRejects(r)
    \/ \E id \in ImageIds : CacheExpire(id)
    \/ \E id \in ImageIds : KvExpire(id)

SpecCacheErrors == InitCold /\ [][NextCacheErrors]_vars

\* ------------------------------------------ the texts the model can return
\* Reads of a cold image, one at a time and with nothing expiring, whose
\* inference call returns any text of SanitiserInputs: every text of up to MaxTextLen characters over
\* Alphabet, the characters the sanitiser escapes, and texts around the
\* ALT_TEXT_MAX_LEN limit.
Alphabet == {" ", "a", "<", ">", "&"}

Repeat(c, n) == [i \in 1..n |-> c]

SanitiserInputs ==
    UNION {[1..n -> Alphabet] : n \in 0..MaxTextLen}
    \cup {<<"\"", "'", GRAVE>>,
          Repeat("a", ALT_TEXT_MAX_LEN),
          Repeat("a", ALT_TEXT_MAX_LEN + 1),
          Repeat("a", ALT_TEXT_MAX_LEN - 1) \o <<"&">>,
          Repeat("&", ALT_TEXT_MAX_LEN)}

ReadAlone(r, id) ==
    /\ \A q \in Requests : pc[q] \in {"idle", "done"}
    /\ HandleImage(r, id)

NextSanitise ==
    \/ \E r \in Requests, id \in ImageIds : ReadAlone(r, id)
    \/ \E r \in Requests : D1Select(r, TRUE)
    \/ \E r \in Requests : R2Get(r, TRUE)
    \/ \E r \in Requests : KvGet(r, TRUE)
    \/ \E r \in Requests : KvPut(r, TRUE)
    \/ \E r \in Requests, raw \in SanitiserInputs : AiRun(r, <<raw>>)
    \/ \E r \in Requests : D1Upsert(r, TRUE)
    \/ \E r \in Requests : D1Reselect(r, TRUE)
    \/ \E r \in Requests : CachePut(r)

SpecSanitise == InitCold /\ [][NextSanitise]_vars

\* ------------------------------------------------------- fair executions
\* Reads keep arriving in every slot, the D1 lookup and the R2 get of a read
\* succeed, every awaited call of a request settles (the background calls
\* with any outcome), and the Cache API lets every entry expire.
Step(r) ==
    \/ \E id \in ImageIds : HandleImage(r, id)
    \/ D1Select(r, TRUE)
    \/ R2Get(r, TRUE)
    \/ \E ok \in BOOLEAN : KvGet(r, ok)
    \/ \E ok \in BOOLEAN : KvPut(r, ok)
    \/ \E result \in AiResults : AiRun(r, result)
    \/ \E ok \in BOOLEAN : D1Upsert(r, ok)
    \/ \E ok \in BOOLEAN : D1Reselect(r, ok)
    \/ CachePut(r)

NextLive ==
    \/ \E r \in Requests : Step(r)
    \/ \E id \in ImageIds : CacheExpire(id)
    \/ \E id \in ImageIds : KvExpire(id)

Fairness ==
    /\ \A r \in Requests : WF_vars(Step(r))
    /\ \A id \in ImageIds : WF_vars(CacheExpire(id))

LiveSpec == Init /\ [][NextLive]_vars /\ Fairness

\* Fair executions of reads of an ingested image in which the lock key also
\* expires: KV drops it AI_DEDUPE_TTL seconds after the put.
RetryFairness ==
    /\ Fairness
    /\ \A id \in ImageIds : WF_vars(KvExpire(id))

RetrySpec == InitCold /\ [][NextLive]_vars /\ RetryFairness

\* ------------------------------------------------------------ handleUpload
\* The R2 object handleUpload writes (lines 1452-1455).
UploadedObject(mimeType, sourceUrl) ==
    [bytes |-> "bytes", contentType |-> mimeType, sourceUrl |-> sourceUrl]

\* The 200 and 201 responses of handleUpload (lines 1403-1406, 1475-1478).
UploadResponse(status, id, message) ==
    [status |-> status, imageId |-> id, url |-> <<"/images/", id>>,
     message |-> message]

\* The ids of the rows whose source_url is the URL.
IdsOfSourceUrl(sourceUrl) ==
    {id \in AllIds : db[id] # <<>> /\ db[id][1].source_url = <<sourceUrl>>}

\* The upload ends with the response.
Reply(u, resp) == up' = [up EXCEPT ![u] = [@ EXCEPT !.pc = "done", !.response = <<resp>>]]

\* An authorised POST /upload with a JSON body arrives (lines 1380-1394): the
\* url field is trimmed and validated, then the SELECT by source_url is issued.
HandleUpload(u, url) ==
    /\ up[u].pc = "idle"
    /\ LET sourceUrl == Trim(url) IN
       IF ~HasHttpScheme(sourceUrl)
       THEN up' = [up EXCEPT ![u] = [@ EXCEPT !.pc = "done", !.sourceUrl = sourceUrl,
                        !.response = <<jsonError("Valid https URL required", 400)>>]]
       ELSE IF ~isSafeUrl(sourceUrl)
       THEN up' = [up EXCEPT ![u] = [@ EXCEPT !.pc = "done", !.sourceUrl = sourceUrl,
                        !.response = <<jsonError("URL resolves to a disallowed network range", 400)>>]]
       ELSE up' = [up EXCEPT ![u] = [@ EXCEPT !.pc = "db.select", !.sourceUrl = sourceUrl]]
    /\ UNCHANGED <<db, images, cache, kv, aiRuns, pc, imageId, d1Result, r2Result,
                   response, altText, toPut, rl>>

\* The SELECT id ... WHERE source_url = ? settles (lines 1396-1411).
UploadSelectNoDedupe(u, ok) ==
    /\ up[u].pc = "db.select"
    /\ IF ~ok
       THEN Reply(u, jsonError("Database unavailable", 503))
       ELSE up' = [up EXCEPT ![u] = [@ EXCEPT !.pc = "fetch"]]
    /\ UNCHANGED <<db, images, cache, kv, aiRuns, pc, imageId, d1Result, r2Result,
                   response, altText, toPut, rl>>

UploadSelect(u, ok) ==
    /\ up[u].pc = "db.select"
    /\ IF ~ok
       THEN Reply(u, jsonError("Database unavailable", 503))
       ELSE IF IdsOfSourceUrl(up[u].sourceUrl) # {}
       THEN Reply(u, UploadResponse(200,
                        CHOOSE id \in IdsOfSourceUrl(up[u].sourceUrl) : TRUE,
                        "Already uploaded"))
       ELSE up' = [up EXCEPT ![u] = [@ EXCEPT !.pc = "fetch"]]
    /\ UNCHANGED <<db, images, cache, kv, aiRuns, pc, imageId, d1Result, r2Result,
                   response, altText, toPut, rl>>

\* What fetch(sourceUrl) and the read of its body settle to: a rejection of
\* the fetch (error, or the 10 s abort), or a response with its ok flag, its
\* content-type header split at the semicolons (<<>> when there is none), and
\* the byte length of its body (Rejected when arrayBuffer rejects).
FetchResults ==
    {Rejected}
    \cup {Fulfilled([ok |-> FALSE, contentType |-> <<"image/png">>, byteLength |-> Fulfilled(1)])}
    \cup {Fulfilled([ok |-> TRUE, contentType |-> ct, byteLength |-> Fulfilled(MAX_IMAGE_BYTES)]) :
            ct \in {<<"image/png", "charset=binary">>, <<"text/html">>, <<>>}}
    \cup {Fulfilled([ok |-> TRUE, contentType |-> <<"image/png">>, byteLength |-> n]) :
            n \in {Fulfilled(MAX_IMAGE_BYTES + 1), Rejected}}

\* Lines 1432-1433 for header values in lower case without padding.
MimeTypeOf(contentType) == IF contentType = <<>> THEN "" ELSE Head(contentType)

\* fetch and the read of the body settle (lines 1413-1449).  A rejection of
\* arrayBuffer is not caught in handleUpload and becomes the 500 of the entry
\* point (lines 74-79).
UploadFetchStoreBeforeSizeCheck(u, result) ==
    /\ up[u].pc = "fetch"
    /\ IF result.status = "rejected"
       THEN Reply(u, jsonError("Failed to fetch source URL", 502)) /\ UNCHANGED images
       ELSE IF ~result.value.ok
       THEN Reply(u, jsonError("Source URL returned an error status", 502)) /\ UNCHANGED images
       ELSE IF MimeTypeOf(result.value.contentType) \notin ALLOWED_TYPES
       THEN Reply(u, jsonError("Unsupported media type", 415)) /\ UNCHANGED images
       ELSE IF result.value.byteLength.status = "rejected"
       THEN Reply(u, jsonError("Internal server error", 500)) /\ UNCHANGED images
       ELSE IF result.value.byteLength.value > MAX_IMAGE_BYTES
       THEN /\ Reply(u, jsonError("Image exceeds 10 MB limit", 413))
            /\ images' = [images EXCEPT ![randomUUID(u)] =
                              <<UploadedObject(MimeTypeOf(result.value.contentType),
                                               up[u].sourceUrl)>>]
       ELSE /\ up' = [up EXCEPT ![u] = [@ EXCEPT !.pc = "r2.put",
                          !.mimeType = MimeTypeOf(result.value.contentType),
                          !.imageId = <<randomUUID(u)>>]]
            /\ UNCHANGED images
    /\ UNCHANGED <<db, cache, kv, aiRuns, pc, imageId, d1Result, r2Result,
                   response, altText, toPut, rl>>

UploadFetch(u, result) ==
    /\ up[u].pc = "fetch"
    /\ IF result.status = "rejected"
       THEN Reply(u, jsonError("Failed to fetch source URL", 502))
       ELSE IF ~result.value.ok
       THEN Reply(u, jsonError("Source URL returned an error status", 502))
       ELSE IF MimeTypeOf(result.value.contentType) \notin ALLOWED_TYPES
       THEN Reply(u, jsonError("Unsupported media type", 415))
       ELSE IF result.value.byteLength.status = "rejected"
       THEN Reply(u, jsonError("Internal server error", 500))
       ELSE IF result.value.byteLength.value > MAX_IMAGE_BYTES
       THEN Reply(u, jsonError("Image exceeds 10 MB limit", 413))
       ELSE up' = [up EXCEPT ![u] = [@ EXCEPT !.pc = "r2.put",
                        !.mimeType = MimeTypeOf(result.value.contentType),
                        !.imageId = <<randomUUID(u)>>]]
    /\ UNCHANGED <<db, images, cache, kv, aiRuns, pc, imageId, d1Result, r2Result,
                   response, altText, toPut, rl>>

\* env.IMAGES.put settles (lines 1451-1459).
UploadR2Put(u, ok) ==
    /\ up[u].pc = "r2.put"
    /\ IF ok
       THEN /\ images' = [images EXCEPT ![up[u].imageId[1]] =
                              <<UploadedObject(up[u].mimeType, up[u].sourceUrl)>>]
            /\ up' = [up EXCEPT ![u] = [@ EXCEPT !.pc = "db.insert"]]
       ELSE /\ Reply(u, jsonError("Storage unavailable", 503))
            /\ UNCHANGED images
    /\ UNCHANGED <<db, cache, kv, aiRuns, pc, imageId, d1Result, r2Result,
                   response, altText, toPut, rl>>

\* Whether the INSERT of lines 1462-1468 is accepted by the table: the
\* PRIMARY KEY on id and the UNIQUE constraint on source_url (lines 1508-1509,
\* 1517).
InsertAcceptedNoUnique(id, sourceUrl) == db[id] = <<>>

InsertAccepted(id, sourceUrl) ==
    db[id] = <<>> /\ IdsOfSourceUrl(sourceUrl) = {}

\* The INSERT settles (lines 1461-1478): the row is stored and the call
\* answers 201, or the insert fails (D1 is unavailable, or a constraint is
\* violated), the rollback delete is issued without being awaited and the
\* call answers 503.
UploadD1InsertEagerInference(u, ok) ==
    /\ up[u].pc = "db.insert"
    /\ IF ok /\ InsertAccepted(up[u].imageId[1], up[u].sourceUrl)
       THEN /\ db' = [db EXCEPT ![up[u].imageId[1]] = <<IngestedRow(up[u].sourceUrl)>>]
            /\ Reply(u, UploadResponse(201, up[u].imageId[1],
                        "Image uploaded - alt-text will generate on first access"))
            /\ kv' = [kv EXCEPT ![up[u].imageId[1]] = TRUE]
            /\ CountAiRun(up[u].imageId[1])
       ELSE /\ up' = [up EXCEPT ![u] = [@ EXCEPT !.pc = "r2.delete",
                          !.response = <<jsonError("Database unavailable", 503)>>]]
            /\ UNCHANGED <<db, kv, aiRuns>>
    /\ UNCHANGED <<images, cache, pc, imageId, d1Result, r2Result,
                   response, altText, toPut, rl>>

UploadD1InsertNoRollback(u, ok) ==
    /\ up[u].pc = "db.insert"
    /\ IF ok /\ InsertAccepted(up[u].imageId[1], up[u].sourceUrl)
       THEN /\ db' = [db EXCEPT ![up[u].imageId[1]] = <<IngestedRow(up[u].sourceUrl)>>]
            /\ Reply(u, UploadResponse(201, up[u].imageId[1],
                        "Image uploaded - alt-text will generate on first access"))
       ELSE /\ Reply(u, jsonError("Database unavailable", 503))
            /\ UNCHANGED db
    /\ UNCHANGED <<images, cache, kv, aiRuns, pc, imageId, d1Result, r2Result,
                   response, altText, toPut, rl>>

\* A variant of UploadD1Insert that issues the delete of the blob after a
\* successful insert as well.
UploadD1InsertAlwaysRollsBack(u, ok) ==
    /\ up[u].pc = "db.insert"
    /\ IF ok /\ InsertAccepted(up[u].imageId[1], up[u].sourceUrl)
       THEN /\ db' = [db EXCEPT ![up[u].imageId[1]] = <<IngestedRow(up[u].sourceUrl)>>]
            /\ up' = [up EXCEPT ![u] = [@ EXCEPT !.pc = "r2.delete",
                          !.response = <<UploadResponse(201, up[u].imageId[1],
                              "Image uploaded - alt-text will generate on first access")>>]]
       ELSE /\ up' = [up EXCEPT ![u] = [@ EXCEPT !.pc = "r2.delete",
                          !.response = <<jsonError("Database unavailable", 503)>>]]
            /\ UNCHANGED db
    /\ UNCHANGED <<images, cache, kv, aiRuns, pc, imageId, d1Result, r2Result,
                   response, altText, toPut, rl>>

UploadD1Insert(u, ok) ==
    /\ up[u].pc = "db.insert"
    /\ IF ok /\ InsertAccepted(up[u].imageId[1], up[u].sourceUrl)
       THEN /\ db' = [db EXCEPT ![up[u].imageId[1]] = <<IngestedRow(up[u].sourceUrl)>>]
            /\ Reply(u, UploadResponse(201, up[u].imageId[1],
                        "Image uploaded - alt-text will generate on first access"))
       ELSE /\ up' = [up EXCEPT ![u] = [@ EXCEPT !.pc = "r2.delete",
                          !.response = <<jsonError("Database unavailable", 503)>>]]
            /\ UNCHANGED db
    /\ UNCHANGED <<images, cache, kv, aiRuns, pc, imageId, d1Result, r2Result,
                   response, altText, toPut, rl>>

\* The rollback env.IMAGES.delete(imageId) settles (line 1471); a rejection
\* is logged.  A delete the runtime drops once the response is out leaves the
\* bucket as a rejected one does.
UploadR2Delete(u, ok) ==
    /\ up[u].pc = "r2.delete"
    /\ images' = IF ok THEN [images EXCEPT ![up[u].imageId[1]] = <<>>] ELSE images
    /\ up' = [up EXCEPT ![u] = [@ EXCEPT !.pc = "done"]]
    /\ UNCHANGED <<db, cache, kv, aiRuns, pc, imageId, d1Result, r2Result,
                   response, altText, toPut, rl>>

\* Ingest into empty stores: no row, no blob, no read.
InitUpload ==
    /\ db = [i \in AllIds |-> <<>>]
    /\ images = [i \in AllIds |-> <<>>]
    /\ InitIdle

NextUpload ==
    \/ \E u \in Uploads, url \in Urls : HandleUpload(u, url)
    \/ \E u \in Uploads, ok \in BOOLEAN : UploadSelect(u, ok)
    \/ \E u \in Uploads, result \in FetchResults : UploadFetch(u, result)
    \/ \E u \in Uploads, ok \in BOOLEAN : UploadR2Put(u, ok)
    \/ \E u \in Uploads, ok \in BOOLEAN : UploadD1Insert(u, ok)
    \/ \E u \in Uploads, ok \in BOOLEAN : UploadR2Delete(u, ok)

SpecUpload == InitUpload /\ [][NextUpload]_vars

\* Ingest while D1 and R2 answer every call: an INSERT fails only on a
\* constraint.
NextUploadHealthy ==
    \/ \E u \in Uploads, url \in Urls : HandleUpload(u, url)
    \/ \E u \in Uploads : UploadSelect(u, TRUE)
    \/ \E u \in Uploads, result \in FetchResults : UploadFetch(u, result)
    \/ \E u \in Uploads : UploadR2Put(u, TRUE)
    \/ \E u \in Uploads : UploadD1Insert(u, TRUE)
    \/ \E u \in Uploads : UploadR2Delete(u, TRUE)

SpecUploadHealthy == InitUpload /\ [][NextUploadHealthy]_vars

\* ------------------------------------------------- ingest, then the reads
\* Uploads of one URL into empty stores, with any call of handleUpload free
\* to fail, and reads of the ids the uploads have answered with: an id is a
\* fresh UUID, which no client has before handleUpload returns it (lines
\* 1403-1406, 1475-1478).  The stores answer the calls of the reads; the
\* model may return any text or fail, and entries expire.
Revealed(id) ==
    \E u \in Uploads :
        /\ up[u].pc = "done"
        /\ up[u].response[1].status \in {200, 201}
        /\ up[u].response[1].imageId = id

ReadRevealed(r, id) == Revealed(id) /\ HandleImage(r, id)

NextLifecycle ==
    \/ \E u \in Uploads : HandleUpload(u, UrlA)
    \/ \E u \in Uploads, ok \in BOOLEAN : UploadSelect(u, ok)
    \/ \E u \in Uploads, result \in FetchResults : UploadFetch(u, result)
    \/ \E u \in Uploads, ok \in BOOLEAN : UploadR2Put(u, ok)
    \/ \E u \in Uploads, ok \in BOOLEAN : UploadD1Insert(u, ok)
    \/ \E u \in Uploads, ok \in BOOLEAN : UploadR2Delete(u, ok)
    \/ \E r \in Requests, id \in UploadIds : ReadRevealed(r, id)
    \/ \E r \in Requests : D1Select(r, TRUE)
    \/ \E r \in Requests : R2Get(r, TRUE)
    \/ \E r \in Requests : KvGet(r, TRUE)
    \/ \E r \in Requests : KvPut(r, TRUE)
    \/ \E r \in Requests, result \in AiResults : AiRun(r, result)
    \/ \E r \in Requests : D1Upsert(r, TRUE)
    \/ \E r \in Requests : D1Reselect(r, TRUE)
    \/ \E r \in Requests : CachePut(r)
    \/ \E id \in UploadIds : CacheExpire(id)
    \/ \E id \in UploadIds : KvExpire(id)

SpecLifecycle == InitUpload /\ [][NextLifecycle]_vars

\* --------------------------------------------------------------- rateLimit
\* The requests of one client IP (CF-Connecting-IP) within one window
\* (Math.floor(Date.now() / 60_000)), so that all of them use the same key
\* rl:<ip>:<win> (lines 1136-1138); the key outlives the window
\* (RATE_LIMIT_TTL).  rl.value is the key's value, <<>> while it is absent;
\* rl.passed counts the requests to API paths that rateLimit let through.

\* String(count + 1), the value written at line 1148.
String(n) == ToString(n)

\* Number(value ?? 0) of line 1141, for the values the limiter writes.
Number(value) ==
    IF value = <<>> THEN 0
    ELSE CHOOSE n \in 0..(RATE_LIMIT_MAX + NumLimited) : String(n) = value[1]

\* The 429 response of lines 1143-1146.
TooManyRequests ==
    [status |-> 429, body |-> "Too Many Requests", Retry_After |-> "60",
     Content_Type |-> "text/plain"]

\* The router calls rateLimit (lines 101, 1128-1139): null at once for a path
\* that is no API path, the read of the key otherwise.
RateLimit(l, isApiPath) ==
    /\ rl.req[l].pc = "idle"
    /\ rl' = [rl EXCEPT !.req[l] =
                 [@ EXCEPT !.pc = IF isApiPath THEN "rl.get" ELSE "handler",
                           !.isApiPath = isApiPath]]
    /\ UNCHANGED <<db, images, cache, kv, aiRuns, pc, imageId, d1Result, r2Result,
                   response, altText, toPut, up>>

\* A variant of RlGet that answers 429 when the read of the key rejects.
RlGetFailClosed(l, ok) ==
    /\ rl.req[l].pc = "rl.get"
    /\ LET count == Number(rl.value) IN
       IF ~ok
       THEN rl' = [rl EXCEPT !.req[l] = [@ EXCEPT !.pc = "rejected", !.logged = TRUE,
                                                  !.response = <<TooManyRequests>>]]
       ELSE IF count >= RATE_LIMIT_MAX
       THEN rl' = [rl EXCEPT !.req[l] = [@ EXCEPT !.pc = "rejected",
                                                  !.response = <<TooManyRequests>>]]
       ELSE rl' = [rl EXCEPT !.req[l] = [@ EXCEPT !.pc = "rl.put", !.count = count]]
    /\ UNCHANGED <<db, images, cache, kv, aiRuns, pc, imageId, d1Result, r2Result,
                   response, altText, toPut, up>>

\* env.RATE_LIMIT.get settles (lines 1140-1147, 1149-1153): a rejection is
\* logged and rateLimit returns null; a count at the limit is answered 429;
\* any other count goes to the put.
RlGet(l, ok) ==
    /\ rl.req[l].pc = "rl.get"
    /\ LET count == Number(rl.value) IN
       IF ~ok
       THEN rl' = [rl EXCEPT !.passed = @ + 1,
                             !.req[l] = [@ EXCEPT !.pc = "handler", !.logged = TRUE]]
       ELSE IF count >= RATE_LIMIT_MAX
       THEN rl' = [rl EXCEPT !.req[l] = [@ EXCEPT !.pc = "rejected",
                                                  !.response = <<TooManyRequests>>]]
       ELSE rl' = [rl EXCEPT !.req[l] = [@ EXCEPT !.pc = "rl.put", !.count = count]]
    /\ UNCHANGED <<db, images, cache, kv, aiRuns, pc, imageId, d1Result, r2Result,
                   response, altText, toPut, up>>

\* env.RATE_LIMIT.put settles (lines 1148-1153): the key holds count + 1 if
\* it was fulfilled, a rejection is logged; rateLimit returns null and the
\* router goes on to the handler (lines 102-119).
RlPut(l, ok) ==
    /\ rl.req[l].pc = "rl.put"
    /\ rl' = [rl EXCEPT !.value = IF ok THEN <<String(rl.req[l].count + 1)>> ELSE @,
                        !.passed = @ + 1,
                        !.req[l] = [@ EXCEPT !.pc = "handler", !.logged = ~ok]]
    /\ UNCHANGED <<db, images, cache, kv, aiRuns, pc, imageId, d1Result, r2Result,
                   response, altText, toPut, up>>

\* The window has served n requests of the IP, one after another: the key
\* holds n and n requests passed.  NumLimited further requests are about to
\* arrive.
InitRateLimit ==
    /\ db = [i \in AllIds |-> <<>>]
    /\ images = [i \in AllIds |-> <<>>]
    /\ cache = [i \in AllIds |-> <<>>]
    /\ kv = [i \in AllIds |-> FALSE]
    /\ aiRuns = [i \in AllIds |-> 0]
    /\ pc = [r \in Requests |-> "idle"]
    /\ imageId = [r \in Requests |-> CHOOSE i \in ImageIds : TRUE]
    /\ d1Result = [r \in Requests |-> Unsettled]
    /\ r2Result = [r \in Requests |-> Unsettled]
    /\ response = [r \in Requests |-> <<>>]
    /\ altText = [r \in Requests |-> <<>>]
    /\ toPut = [r \in Requests |-> <<>>]
    /\ up = [u \in Uploads |-> IdleUpload]
    /\ \E n \in 0..RATE_LIMIT_MAX :
          rl = [NoTraffic EXCEPT !.value = IF n = 0 THEN <<>> ELSE <<String(n)>>,
                                 !.passed = n]

NextRateLimit ==
    \/ \E l \in Limited, isApiPath \in BOOLEAN : RateLimit(l, isApiPath)
    \/ \E l \in Limited, ok \in BOOLEAN : RlGet(l, ok)
    \/ \E l \in Limited, ok \in BOOLEAN : RlPut(l, ok)

SpecRateLimit == InitRateLimit /\ [][NextRateLimit]_vars

\* The rate-limit store answers every call.
NextRateLimitHealthy ==
    \/ \E l \in Limited, isApiPath \in BOOLEAN : RateLimit(l, isApiPath)
    \/ \E l \in Limited : RlGet(l, TRUE)
    \/ \E l \in Limited : RlPut(l, TRUE)

SpecRateLimitHealthy == InitRateLimit /\ [][NextRateLimitHealthy]_vars

\* ================================================================== claims
\* A request whose handler and background work have ended.
Done(r) == pc[r] = "done"

\* The elements of a sequence.
Range(q) == {q[i] : i \in 1..Len(q)}

\* C1: when every read of a burst of reads of one cold image has ended (lock
\* store answering, nothing expiring), env.AI.run was invoked exactly once
\* for the image.
C1_ColdBurstInvokesOnce ==
    (\A r \in Requests : Done(r)) => \A id \in ImageIds : aiRuns[id] = 1

\* C2: over all the reads of an image, whatever expires or fails in between,
\* env.AI.run is invoked at most once for the image.
C2_AtMostOncePerLifetime == \A id \in ImageIds : aiRuns[id] <= 1

\* C3: once a description is persisted for an image, no read that starts
\* afterwards invokes env.AI.run for it (no invocation is ever counted from
\* the persisted state on).
C3_NoInferenceOncePersisted == \A id \in ImageIds : aiRuns[id] = 0

\* A request that took the cache entry as its response.
Hit(r) ==
    /\ Done(r)
    /\ d1Result[r] = Unsettled
    /\ r2Result[r] = Unsettled
    /\ response[r] # <<>>

\* The step is the arrival of a read in slot r.
Arrives(r) ==
    /\ pc[r] \in {"idle", "done"}
    /\ <<pc[r], imageId[r], d1Result[r], r2Result[r], response[r]>>'
          # <<pc[r], imageId[r], d1Result[r], r2Result[r], response[r]>>

\* The positions of the work handleImage leaves to ctx.waitUntil.
BackgroundPcs == {"cache.put", "kv.get", "kv.put", "ai.run", "db.upsert", "db.reselect"}

\* C4: a read that finds a cache entry for its identity returns exactly that
\* entry and ends there: no D1 lookup, no R2 get, nothing pending for
\* ctx.waitUntil, and D1, R2, the cache, the lock store and the inference
\* count are left as they were.
C4_CacheHitReturnsEntryOnly ==
    [][\A r \in Requests :
          (Arrives(r) /\ cache[imageId'[r]] # <<>>) =>
              /\ response'[r] = cache[imageId'[r]]
              /\ pc'[r] = "done"
              /\ d1Result'[r] = Unsettled
              /\ r2Result'[r] = Unsettled
              /\ toPut'[r] = <<>>
              /\ UNCHANGED <<db, images, cache, kv, aiRuns>>]_vars

C4_Witness ==
    \E r \in Requests : Hit(r) /\ response[r] = cache[imageId[r]]

\* C5: whenever a request is at a background step (lock get or put, inference,
\* upsert, re-read, cache put) its response has already been produced; that
\* response is the one the two settled lookups give, and no later step of the
\* request changes it.
C5_ResponseBeforeBackground ==
    /\ [](\A r \in Requests :
            /\ pc[r] \in BackgroundPcs => response[r] # <<>>
            /\ (response[r] # <<>> /\ ~Hit(r)) =>
                  response[r] = <<ResponseOf(imageId[r], d1Result[r], r2Result[r])>>)
    /\ [][\A r \in Requests :
            (response[r] # <<>> /\ ~Arrives(r)) => response'[r] = response[r]]_vars

\* A request that answered with the pending placeholder, whose background
\* task has since persisted a description and rebuilt the cache entry.
C5_Witness ==
    \E r \in Requests :
        /\ Done(r) /\ ~Hit(r)
        /\ response[r] # <<>>
        /\ response[r][1].X_Alt_Text = PENDING_ALT_TEXT
        /\ HasAltText(imageId[r])
        /\ cache[imageId[r]] # <<>>
        /\ cache[imageId[r]][1].X_Alt_Text = db[imageId[r]][1].alt_text

\* The request's D1 lookup rejected and its R2 get returned the blob.
LookupFailedBlobPresent(r) ==
    /\ d1Result[r].status = "rejected"
    /\ r2Result[r].status = "fulfilled"
    /\ r2Result[r].value # <<>>

\* C6: a cache-miss read whose D1 lookup fails while R2 returns the blob
\* answers 200 with the blob bytes, the pending placeholder and the
\* short-lived directive.
C6_LookupFailureStillServes ==
    \A r \in Requests :
        LookupFailedBlobPresent(r) =>
            /\ response[r] # <<>>
            /\ response[r][1].status = 200
            /\ response[r][1].body = r2Result[r].value[1].bytes
            /\ response[r][1].X_Alt_Text = PENDING_ALT_TEXT
            /\ response[r][1].Cache_Control = CacheControlPending

C6_Witness == \E r \in Requests : LookupFailedBlobPresent(r) /\ Done(r)

\* Both promises of the request have settled.
Settled(r) == d1Result[r].status # "unsettled" /\ r2Result[r].status # "unsettled"

\* C7: a cache-miss read answers 404 when R2 has no blob and 503 when the R2
\* get rejects, whatever the D1 lookup gave, and it then has ended: no
\* background step follows and nothing is left to write to the cache.
C7_BlobErrorsEndTheRead ==
    \A r \in Requests :
        /\ (Settled(r) /\ r2Result[r].status = "rejected") =>
              /\ response[r] = <<jsonError("Storage unavailable", 503)>>
              /\ Done(r) /\ toPut[r] = <<>>
        /\ (Settled(r) /\ r2Result[r] = Fulfilled(<<>>)) =>
              /\ response[r] = <<jsonError("Image not found", 404)>>
              /\ Done(r) /\ toPut[r] = <<>>

C7_Witness ==
    /\ \E r \in Requests : Settled(r) /\ r2Result[r] = Fulfilled(<<>>)
    /\ \A id \in ImageIds : cache[id] = <<>> /\ ~kv[id] /\ aiRuns[id] = 0

\* The 200 responses held anywhere: returned, waiting to be written, cached.
ImageResponses ==
    {e \in UNION ({Range(response[r]) : r \in Requests}
                  \cup {Range(toPut[r]) : r \in Requests}
                  \cup {Range(cache[id]) : id \in ImageIds}) : e.status = 200}

\* C8: in every 200 response and cache entry the directive is max-age=3600
\* exactly when the description header carries a description, and max-age=60
\* with stale-while-revalidate=300 exactly when it carries the placeholder.
C8_DirectiveFollowsDescription ==
    \A e \in ImageResponses :
        /\ e.Cache_Control \in {CacheControlReady, CacheControlPending}
        /\ e.Cache_Control = CacheControlReady <=> e.X_Alt_Text \in Descriptions
        /\ e.Cache_Control = CacheControlPending <=> e.X_Alt_Text = PENDING_ALT_TEXT

\* An entry rebuilt by generateAndCache for a request that answered pending.
C8_Witness ==
    \E r \in Requests :
        /\ Done(r) /\ ~Hit(r)
        /\ response[r] # <<>>
        /\ response[r][1].Cache_Control = CacheControlPending
        /\ cache[imageId[r]] # <<>>
        /\ cache[imageId[r]][1].Cache_Control = CacheControlReady

\* C9: while the inference call of a pending read's task is in flight, an
\* identical read that arrives finds the pending response in the cache (a hit).
C9_PendingCachedDuringInference ==
    [][\A r, q \in Requests :
          (q # r /\ pc[q] = "ai.run" /\ Arrives(r) /\ imageId'[r] = imageId[q])
              => pc'[r] = "done"]_vars

\* The response or cache entry e carries the persisted description of id with
\* the long-lived directive.
CarriesDescription(e, id) ==
    /\ e # <<>>
    /\ HasAltText(id)
    /\ e[1].status = 200
    /\ e[1].X_Alt_Text = db[id][1].alt_text
    /\ e[1].Cache_Control = CacheControlReady

\* C10: once a background task has persisted a description for an image,
\* eventually the cache holds an entry carrying it, and eventually a read of
\* the image has returned it with the long-lived directive.
C10_DescriptionBecomesVisible ==
    \A id \in ImageIds :
        /\ HasAltText(id) ~> CarriesDescription(cache[id], id)
        /\ HasAltText(id) ~>
              \E r \in Requests :
                  Done(r) /\ imageId[r] = id /\ CarriesDescription(response[r], id)

\* A later reader got the persisted description from the cache.
C10_Witness ==
    \E r \in Requests :
        /\ Hit(r)
        /\ CarriesDescription(response[r], imageId[r])
        /\ CarriesDescription(cache[imageId[r]], imageId[r])

\* C11: a read that arrives when a description is persisted for its image, and
\* is answered from the cache, returns a description, not the placeholder.
C11_ReadsAfterPersistObserve ==
    [][\A r \in Requests :
          (Arrives(r) /\ HasAltText(imageId'[r]) /\ pc'[r] = "done") =>
              response'[r][1].X_Alt_Text \in Descriptions]_vars

\* The upload has answered with a 200 or 201.
Succeeded(u) == up[u].response # <<>> /\ up[u].response[1].status \in {200, 201}

\* The upload's INSERT failed (it had its blob written and answered 503).
InsertFailed(u) ==
    /\ up[u].pc \in {"r2.delete", "done"}
    /\ up[u].imageId # <<>>
    /\ up[u].response = <<jsonError("Database unavailable", 503)>>

\* The blobs in the bucket that the uploads of the set wrote.
BlobsWrittenBy(us) ==
    {i \in AllIds : images[i] # <<>> /\ \E w \in us : up[w].imageId = <<i>>}

\* C12: two uploads of one URL that both return an id return the same id;
\* the table then has exactly one row for the URL, under that id, and the
\* blob under that id is there and is the only one the two calls wrote.  An upload whose
\* SELECT finds a row answers 200 with the row's id at that step (unless the
\* SELECT fails): it fetches nothing, has no id of its own and leaves the
\* table and the bucket as they are.
C12_SameUrlSameId ==
    /\ [](\A u, v \in Uploads :
            (/\ u # v /\ Succeeded(u) /\ Succeeded(v)
             /\ up[u].sourceUrl = up[v].sourceUrl) =>
                /\ up[u].response[1].imageId = up[v].response[1].imageId
                /\ IdsOfSourceUrl(up[u].sourceUrl) = {up[u].response[1].imageId}
                /\ images[up[u].response[1].imageId] # <<>>
                /\ BlobsWrittenBy({u, v}) \subseteq {up[u].response[1].imageId}
                /\ up[v].response[1].status = 200 =>
                      up[v].imageId = <<>> /\ up[v].mimeType = "")
    /\ [][\A v \in Uploads :
            (/\ up[v].pc = "db.select" /\ up'[v].pc # "db.select"
             /\ IdsOfSourceUrl(up[v].sourceUrl) # {}) =>
                /\ up'[v].pc = "done"
                /\ \/ up'[v].response = <<jsonError("Database unavailable", 503)>>
                   \/ /\ up'[v].response[1].status = 200
                      /\ up'[v].response[1].imageId \in IdsOfSourceUrl(up[v].sourceUrl)
                /\ UNCHANGED <<db, images>>]_vars

\* The URL was ingested (201), and a second upload of it, written with
\* padding, got the same id (200).
C12_Witness ==
    \E u, v \in Uploads :
        /\ Succeeded(u) /\ up[u].response[1].status = 201
        /\ Succeeded(v) /\ up[v].response[1].status = 200
        /\ up[v].sourceUrl = up[u].sourceUrl
        /\ up[v].response[1].imageId = up[u].response[1].imageId

\* C13: an upload whose INSERT settles while the table has a row for its URL
\* (written by a concurrent upload since its own SELECT) answers 200 or 201
\* with the id of that row.
C13_DuplicateAtInsertReturnsId ==
    [][\A v \in Uploads :
          (/\ up[v].pc = "db.insert" /\ up'[v].pc # "db.insert"
           /\ IdsOfSourceUrl(up[v].sourceUrl) # {}) =>
              /\ up'[v].response # <<>>
              /\ up'[v].response[1].status \in {200, 201}
              /\ up'[v].response[1].imageId \in IdsOfSourceUrl(up[v].sourceUrl)]_vars

\* C14: no two rows of the images table have the same non-null source_url,
\* however concurrent uploads of one URL interleave.
C14_SourceUrlUnique ==
    \A i, j \in AllIds :
        (/\ db[i] # <<>> /\ db[j] # <<>>
         /\ db[i][1].source_url # <<>>
         /\ db[i][1].source_url = db[j][1].source_url) => i = j

\* Two uploads of one URL both passed the SELECT; one inserted its row, the
\* INSERT of the other was refused.
C14_Witness ==
    \E u, v \in Uploads :
        /\ up[u].response # <<>> /\ up[u].response[1].status = 201
        /\ InsertFailed(v)
        /\ up[v].sourceUrl = up[u].sourceUrl

\* C15: an upload whose INSERT fails after its blob was written answers 503
\* at that step and has the delete of its own blob id in flight; when the
\* delete settles, with the blob removed or left in place, the answer is the
\* same 503, nothing but that blob has changed, and the call has ended for
\* good.
C15_RollbackIsBestEffort ==
    /\ [](\A u \in Uploads :
            up[u].pc = "r2.delete" =>
                up[u].imageId # <<>> /\ up[u].response = <<jsonError("Database unavailable", 503)>>)
    /\ [][\A u \in Uploads :
            /\ (up[u].pc = "db.insert" /\ up'[u].pc # "db.insert") =>
                  \/ /\ up'[u].pc = "done"
                     /\ up'[u].response[1].status = 201
                     /\ db'[up[u].imageId[1]] # <<>>
                  \/ /\ up'[u].pc = "r2.delete"
                     /\ up'[u].imageId = up[u].imageId
                     /\ up'[u].response = <<jsonError("Database unavailable", 503)>>
                     /\ UNCHANGED <<db, images>>
            /\ (up[u].pc = "r2.delete" /\ up'[u].pc # "r2.delete") =>
                  /\ up'[u] = [up[u] EXCEPT !.pc = "done"]
                  /\ images' \in {images, [images EXCEPT ![up[u].imageId[1]] = <<>>]}
                  /\ UNCHANGED db
            /\ up[u].pc = "done" => up'[u] = up[u]]_vars

\* Two failed inserts whose rollbacks have settled: one removed its blob, the
\* other left it behind.
C15_Witness ==
    \E u, v \in Uploads :
        /\ InsertFailed(u) /\ up[u].pc = "done" /\ images[up[u].imageId[1]] = <<>>
        /\ InsertFailed(v) /\ up[v].pc = "done" /\ images[up[v].imageId[1]] # <<>>

\* The upload ended with an error before its INSERT was issued.
FailedBeforeInsert(u) ==
    /\ up[u].pc = "done"
    /\ up[u].response[1].status \notin {200, 201}
    /\ up[u].imageId = <<>> \/ up[u].response = <<jsonError("Storage unavailable", 503)>>

\* C16: an upload that fails at the SELECT, the fetch, the content-type
\* check, the size check or the R2 put answers with an error status, and no
\* step it took, up to and including the failing one, changed the table or
\* the bucket; it ends there, with no delete in flight, and the id it
\* generated, if any, has neither blob nor row.
C16_EarlyFailureLeavesNoState ==
    /\ [](\A u \in Uploads :
            FailedBeforeInsert(u) =>
                /\ up[u].response[1].status >= 400
                /\ up[u].imageId # <<>> =>
                      images[up[u].imageId[1]] = <<>> /\ db[up[u].imageId[1]] = <<>>)
    /\ [][\A u \in Uploads :
            /\ (up[u].pc \in {"idle", "db.select", "fetch"} /\ up'[u] # up[u]) =>
                  UNCHANGED <<db, images>>
            /\ (up[u].pc = "r2.put" /\ up'[u].pc # "r2.put") =>
                  \/ up'[u].pc = "db.insert"
                  \/ /\ up'[u].pc = "done"
                     /\ up'[u].response = <<jsonError("Storage unavailable", 503)>>
                     /\ UNCHANGED <<db, images>>]_vars

\* One upload failed at the R2 put, another at the size check.
C16_Witness ==
    \E u, v \in Uploads :
        /\ FailedBeforeInsert(u)
        /\ up[u].response = <<jsonError("Storage unavailable", 503)>>
        /\ FailedBeforeInsert(v)
        /\ up[v].response[1].status = 413

\* The uploaded URLs without an http(s) scheme, and those whose host is on
\* the denylist of isSafeUrl (loopback, link-local, RFC1918).
UrlsWithoutScheme == {<<>>, UrlNoScheme}
UrlsOnDenylist ==
    {UrlLocalhost, UrlLoopback, UrlLoopbackV6, UrlLinkLocal, UrlClassA,
     UrlClassB, UrlClassC}

\* C17: an upload of a URL without an http(s) scheme or with a host on the
\* denylist has ended with a 400 once it has arrived: it issued no SELECT,
\* no fetch and no write.
C17_DeniedUrlsAreRejected ==
    \A u \in Uploads :
        (up[u].pc # "idle" /\ up[u].sourceUrl \in UrlsWithoutScheme \cup UrlsOnDenylist) =>
            /\ up[u].pc = "done"
            /\ up[u].response[1].status = 400
            /\ up[u].imageId = <<>>

\* C20: while images are only ingested and none is read, env.AI.run has been
\* invoked for no image and no dedupe lock key exists: no step of an upload,
\* successful or failing, invokes the model or touches AI_QUOTA.
C20_IngestNeverInfers ==
    /\ [](\A id \in AllIds : aiRuns[id] = 0 /\ ~kv[id])
    /\ [][up' # up => UNCHANGED <<aiRuns, kv>>]_vars

\* An ingested, never read image, next to an upload that failed at its INSERT
\* and has rolled back.
C20_Witness ==
    \E u, v \in Uploads :
        /\ up[u].pc = "done" /\ up[u].response[1].status = 201
        /\ db[up[u].imageId[1]] = <<IngestedRow(up[u].sourceUrl)>>
        /\ InsertFailed(v) /\ up[v].pc = "done"
        /\ \A id \in AllIds : aiRuns[id] = 0

\* C18: sanitising a sanitised text changes nothing: the text
\* generateAltTextOnce is about to store is a fixed point of sanitiseAltText.
C18_SanitiseIdempotent ==
    \A r \in Requests :
        pc[r] = "db.upsert" => sanitiseAltText(altText[r]) = altText[r]

\* C19: the sanitised text generateAltTextOnce holds, and every description
\* in the images table, has at most ALT_TEXT_MAX_LEN characters, counted
\* after escaping.
C19_DescriptionAtMostMaxLen ==
    /\ \A r \in Requests : Len(altText[r]) <= ALT_TEXT_MAX_LEN
    /\ \A id \in AllIds : HasAltText(id) => Len(db[id][1].alt_text) <= ALT_TEXT_MAX_LEN

\* A stored description that escaping made longer than the limit and the
\* slice cut to it.
C19_Witness ==
    \E id \in ImageIds :
        /\ HasAltText(id)
        /\ Len(db[id][1].alt_text) = ALT_TEXT_MAX_LEN
        /\ db[id][1].alt_text[1] = "&"

\* The response is the one handleImage builds for an image without a
\* description.
IsPending(e) == e # <<>> /\ e[1].X_Alt_Text = PENDING_ALT_TEXT

AttemptsFailed(id) ==
    /\ aiRuns[id] >= 1
    /\ ~HasAltText(id)
    /\ \A r \in Requests : imageId[r] = id => pc[r] \notin {"ai.run", "db.upsert"}

\* C22: while an image has no description every read of it is answered 200
\* with the placeholder, and whenever the inference attempts made so far have
\* all failed, a later read starts a task that calls env.AI.run again (the
\* lock key and the cached pending entry expire, reads keep arriving).
C22_FailedAttemptIsRetried ==
    /\ [](\A r \in Requests :
            (response[r] # <<>> /\ ~HasAltText(imageId[r]))
                => (response[r][1].status = 200 /\ IsPending(response[r])))
    /\ \A id \in ImageIds :
          AttemptsFailed(id) ~>
              \E r \in Requests : pc[r] = "ai.run" /\ imageId[r] = id

\* A second call of env.AI.run is running while no other task is, the image
\* still without a description: the first attempt failed and was retried.
C22_Witness ==
    \E r \in Requests :
        /\ pc[r] = "ai.run"
        /\ aiRuns[imageId[r]] = 2
        /\ ~HasAltText(imageId[r])
        /\ IsPending(response[r])
        /\ \A q \in Requests \ {r} : pc[q] \in {"idle", "done"}

\* C23: a rejected env.AI_QUOTA.get or env.AI_QUOTA.put takes the task to
\* env.AI.run, which is invoked, and changes no response, cache entry or row;
\* no step of the lock acquisition ends the task, and only a lock key that is
\* present sends the task past the inference call.
C23_LockStoreErrorsAreNotFatal ==
    /\ [][\A r \in Requests :
            (KvGet(r, FALSE) \/ KvPut(r, FALSE)) =>
                /\ pc'[r] = "ai.run"
                /\ aiRuns'[imageId[r]] >= 1
                /\ response' = response
                /\ cache' = cache
                /\ db' = db
                /\ kv' = kv]_vars
    /\ [][\A r \in Requests :
            (pc[r] \in {"kv.get", "kv.put"} /\ pc'[r] # pc[r]) =>
                /\ pc'[r] \in {"kv.put", "ai.run", "db.reselect"}
                /\ pc'[r] = "db.reselect" => (pc[r] = "kv.get" /\ kv[imageId[r]])
                /\ response'[r] = response[r]]_vars

\* A task is at env.AI.run although no lock key was written for its image.
C23_Witness ==
    \E r \in Requests :
        /\ pc[r] = "ai.run"
        /\ ~kv[imageId[r]]
        /\ aiRuns[imageId[r]] = 1
        /\ IsPending(response[r])
        /\ cache[imageId[r]] = <<>>
        /\ \A q \in Requests \ {r} : pc[q] = "idle"

\* The step is the lock read of r finding the key of its image.
FindsLock(r) == KvGet(r, TRUE) /\ kv[imageId[r]]

\* C24: the lock read of a task that finds the key takes the task past the
\* lock write, env.AI.run and the upsert, to the re-read, without invoking
\* the model or touching the lock store or the row; and no step a task takes
\* from the re-read on invokes the model, writes the lock key or changes a
\* row.
C24_LockedTaskDoesNotInfer ==
    /\ [][\A r \in Requests :
            FindsLock(r) =>
                /\ pc'[r] = "db.reselect"
                /\ aiRuns' = aiRuns
                /\ kv' = kv
                /\ db' = db]_vars
    /\ [][\A r \in Requests :
            (pc[r] \in {"db.reselect", "cache.put"} /\ pc'[r] # pc[r]) =>
                /\ pc'[r] \in {"cache.put", "done"}
                /\ aiRuns' = aiRuns
                /\ kv' = kv
                /\ db' = db]_vars

\* A task found the key that another task, now at env.AI.run, had written,
\* and is at the re-read: one invocation for the image.
C24_Witness ==
    \E r, q \in Requests :
        /\ q # r
        /\ imageId[q] = imageId[r]
        /\ pc[r] = "db.reselect"
        /\ pc[q] = "ai.run"
        /\ kv[imageId[r]]
        /\ aiRuns[imageId[r]] = 1
        /\ ~HasAltText(imageId[r])

\* The step is the re-read of r finding a description in the row.
RereadFindsDescription(r) ==
    /\ pc[r] = "db.reselect"
    /\ pc'[r] = "cache.put"
    /\ toPut'[r] # response[r]

\* C27: when the re-read finds a description, the entry the task holds for
\* its cache.put has the status, the body and the other headers of the
\* original response, the description of the row as the description header
\* and the long-lived directive; and that entry is what the cache.put writes.
C27_EnrichedEntryKeepsTheResponse ==
    /\ [][\A r \in Requests :
            RereadFindsDescription(r) =>
                /\ HasAltText(imageId[r])
                /\ toPut'[r] # <<>>
                /\ toPut'[r][1].status = response[r][1].status
                /\ toPut'[r][1].body = response[r][1].body
                /\ toPut'[r][1].Content_Type = response[r][1].Content_Type
                /\ toPut'[r][1].X_Image_Id = response[r][1].X_Image_Id
                /\ toPut'[r][1].X_Alt_Text = db[imageId[r]][1].alt_text
                /\ toPut'[r][1].Cache_Control = CacheControlReady]_vars
    /\ [][\A r \in Requests :
            (pc[r] = "cache.put" /\ pc'[r] = "done") =>
                cache'[imageId[r]] = toPut[r]]_vars

\* A task whose response said pending holds an enriched entry for its
\* cache.put: the body of the stored object, the description of the row, the
\* long-lived directive.
C27_Witness ==
    \E r \in Requests :
        /\ pc[r] = "cache.put"
        /\ IsPending(response[r])
        /\ toPut[r] # response[r]
        /\ CarriesDescription(toPut[r], imageId[r])
        /\ toPut[r][1].body = StoredObject.bytes

\* C29: the task whose lock read finds the key ends there: it goes on to no
\* D1 read and no cache.put.
C29_LockedTaskEndsAtTheLock ==
    [][\A r \in Requests : FindsLock(r) => pc'[r] = "done"]_vars

\* The step replaces a cache entry of id that carries the description by one
\* that carries the placeholder.
Regresses(id) ==
    /\ CarriesDescription(cache[id], id)
    /\ IsPending(cache'[id])

\* C30: no step replaces a cache entry that carries the description and the
\* long-lived directive by an entry that carries the placeholder.
C30_CacheEntryNeverRegresses ==
    [][\A id \in ImageIds : ~Regresses(id)]_vars

\* C28: a task that holds an enriched entry for its cache.put ends with an
\* entry written to the cache: the enriched one, or, when that put rejects,
\* the original pending response.
C28_TaskEndsWithCachePut ==
    [][\A r \in Requests :
          (/\ pc[r] = "cache.put"
           /\ pc'[r] = "done"
           /\ IsPending(response[r])
           /\ toPut[r] # response[r])
              => cache'[imageId[r]] \in {toPut[r], response[r]}]_vars

\* C25: at most RATE_LIMIT_MAX requests of one IP to the API paths pass the
\* rate limiter within one window, however the requests interleave.
C25_AtMostMaxPassPerWindow == rl.passed <= RATE_LIMIT_MAX

\* C26: a request whose read or write of the rate-limit key rejected is not
\* answered by the limiter: rateLimit logs, returns null and the router goes
\* on to the handler, as it does for a request the limiter does not apply to;
\* the limiter answers only 429, and only after a read that found the limit
\* reached.
C26_RateLimiterFailsOpen ==
    /\ [](\A l \in Limited :
            /\ rl.req[l].logged =>
                  (rl.req[l].pc = "handler" /\ rl.req[l].response = <<>>)
            /\ rl.req[l].pc = "handler" => rl.req[l].response = <<>>
            /\ rl.req[l].response # <<>> =>
                  (rl.req[l].pc = "rejected" /\ ~rl.req[l].logged))
    /\ [][\A l \in Limited :
            (RlGet(l, FALSE) \/ RlPut(l, FALSE)) =>
                /\ rl'.req[l].pc = "handler"
                /\ rl'.req[l].response = <<>>
                /\ rl'.req[l].logged
                /\ rl'.value = rl.value]_vars
    /\ [][\A l \in Limited :
            rl'.req[l].pc = "rejected" =>
                (rl.req[l].pc = "rejected" \/ Number(rl.value) >= RATE_LIMIT_MAX)]_vars

\* The key is at the limit, and a request whose read of it rejected is at its
\* handler.
C26_Witness ==
    \E l \in Limited :
        /\ Number(rl.value) = RATE_LIMIT_MAX
        /\ rl.req[l].pc = "handler"
        /\ rl.req[l].isApiPath
        /\ rl.req[l].logged
        /\ rl.req[l].response = <<>>

\* The step takes r to env.AI.run.
Invokes(r) == pc[r] # "ai.run" /\ pc'[r] = "ai.run"

\* C31: with the lock store answering, the step that takes a task to
\* env.AI.run is the settling of that task's write of the lock key, which
\* the store holds from that step on; and the key of an image goes away only
\* by expiry, in a step that is no step of any request.
C31_LockWrittenBeforeInference ==
    /\ [][\A r \in Requests :
            Invokes(r) => (pc[r] = "kv.put" /\ kv'[imageId[r]])]_vars
    /\ [][\A id \in AllIds :
            (kv[id] /\ ~kv'[id]) => (KvExpire(id) /\ pc' = pc)]_vars

\* A task is at env.AI.run behind the lock key it wrote.
C31_Witness ==
    \E r \in Requests :
        /\ pc[r] = "ai.run"
        /\ kv[imageId[r]]
        /\ aiRuns[imageId[r]] = 1
        /\ \A q \in Requests \ {r} : pc[q] = "idle"

\* The step is r answering a cache miss with a description from D1.
RespondsWithDescription(r) ==
    /\ pc[r] = "fetch"
    /\ pc'[r] # "fetch"
    /\ response'[r][1].status = 200
    /\ ~IsPending(response'[r])

\* The cache.put of r is the one handleImage leaves behind after a response
\* with a description.
PutsOwnResponse(r) ==
    /\ pc[r] = "cache.put"
    /\ toPut[r] = response[r]
    /\ ~IsPending(response[r])

\* C32: a cache miss answered with a description leaves to the background
\* only the cache.put of that response, which carries the long-lived
\* directive; that put writes the response to the cache and ends the
\* request, with D1, R2, the lock store and the invocation count untouched
\* by both steps.
C32_DescribedReadOnlyCaches ==
    /\ [][\A r \in Requests :
            RespondsWithDescription(r) =>
                /\ pc'[r] = "cache.put"
                /\ toPut'[r] = response'[r]
                /\ response'[r][1].Cache_Control = CacheControlReady
                /\ UNCHANGED <<db, images, kv, aiRuns, cache>>]_vars
    /\ [][\A r \in Requests :
            (PutsOwnResponse(r) /\ pc'[r] # pc[r]) =>
                /\ pc'[r] = "done"
                /\ cache'[imageId[r]] = response[r]
                /\ UNCHANGED <<db, images, kv, aiRuns>>]_vars

\* A read that missed the cache and found a description is about to write
\* its response to the cache; the model was never invoked and no lock key
\* was written.
C32_Witness ==
    \E r \in Requests :
        /\ PutsOwnResponse(r)
        /\ d1Result[r].status = "fulfilled"
        /\ CarriesDescription(response[r], imageId[r])
        /\ aiRuns[imageId[r]] = 0
        /\ ~kv[imageId[r]]

\* What sanitiseAltText returns for the texts the model can return.
Sanitised == {sanitiseAltText(Trim(raw)) : raw \in SanitiserInputs}

\* The characters sanitiseAltText never leaves in its result.
Unsafe == {"<", ">", "\"", "'", GRAVE}

\* The text is a non-empty result of sanitiseAltText.
IsSanitised(text) ==
    /\ text \in Sanitised \ {<<>>}
    /\ \A i \in 1..Len(text) : text[i] \notin Unsafe

\* The X-Alt-Text of a response or cache entry, if any, is the placeholder or
\* a result of sanitiseAltText.
HeaderIsSanitised(e) ==
    (e # <<>> /\ e[1].status = 200) =>
        (IsPending(e) \/ IsSanitised(e[1].X_Alt_Text))

\* C33: every description in the images table, the text every task holds
\* for its upsert, and the X-Alt-Text of every response and of every cache
\* entry, written or about to be, is a result of sanitiseAltText (or, for a
\* header, the placeholder).
C33_DescriptionsAreSanitised ==
    /\ \A id \in AllIds : HasAltText(id) => IsSanitised(db[id][1].alt_text)
    /\ \A r \in Requests :
          /\ altText[r] # <<>> => IsSanitised(altText[r])
          /\ HeaderIsSanitised(response[r])
          /\ HeaderIsSanitised(toPut[r])
    /\ \A id \in AllIds : HeaderIsSanitised(cache[id])

\* The table and the cache hold a description that the sanitiser escaped.
C33_Witness ==
    \E id \in ImageIds :
        /\ HasAltText(id)
        /\ db[id][1].alt_text = <<"a">> \o HTML_ESCAPE_MAP("<")
        /\ CarriesDescription(cache[id], id)

\* The step is the upsert of r settling fulfilled.
Persists(r) == D1Upsert(r, TRUE)

\* C34: a fulfilled upsert for an id without a row creates the row with that
\* description, and for an id with a row stores the description in it; and a
\* read that misses the cache and whose lookup is fulfilled with a row that
\* has a description answers 200 with that description.
C34_UpsertInsertsOrUpdates ==
    /\ [][\A r \in Requests :
            Persists(r) =>
                /\ db'[imageId[r]] # <<>>
                /\ db'[imageId[r]][1].alt_text = altText[r]
                /\ altText[r] # <<>>
                /\ db[imageId[r]] = <<>> => db'[imageId[r]] = <<Row(altText[r])>>]_vars
    /\ [](\A r \in Requests :
            (/\ response[r] # <<>>
             /\ d1Result[r].status = "fulfilled"
             /\ r2Result[r].status = "fulfilled"
             /\ r2Result[r].value # <<>>
             /\ AltTextOf(d1Result[r]) # <<>>)
                => /\ response[r][1].status = 200
                   /\ response[r][1].X_Alt_Text = d1Result[r].value[1].alt_text)

\* The row of the image was created by the upsert (it has no source_url),
\* and a read that missed the cache returned its description.
C34_Witness ==
    \E r \in Requests :
        /\ db[imageId[r]] # <<>>
        /\ db[imageId[r]][1].source_url = <<>>
        /\ Done(r)
        /\ d1Result[r] = Fulfilled(db[imageId[r]])
        /\ CarriesDescription(response[r], imageId[r])

\* C35: once the row of an image has a description, no step changes it.
C35_DescriptionWrittenOnce ==
    [][\A id \in AllIds :
          HasAltText(id) =>
              (db'[id] # <<>> /\ db'[id][1].alt_text = db[id][1].alt_text)]_vars

\* C37: a fulfilled upsert for an id that has a row changes alt_text and
\* updated_at of that row and nothing else of it, changes no other row and
\* no R2 object; and no step of a read or of its background task changes
\* the bucket.
C37_UpsertTouchesOnlyTheDescription ==
    /\ [][\A r \in Requests :
            (Persists(r) /\ db[imageId[r]] # <<>>) =>
                /\ db'[imageId[r]] # <<>>
                /\ db'[imageId[r]][1].source_url = db[imageId[r]][1].source_url
                /\ db'[imageId[r]][1].created_at = db[imageId[r]][1].created_at
                /\ db'[imageId[r]][1].updated_at # <<>>
                /\ \A id \in AllIds \ {imageId[r]} : db'[id] = db[id]
                /\ images' = images]_vars
    /\ [][images' = images]_vars

\* The row ingest wrote has a description, its source_url and created_at as
\* ingest set them, and the blob is in the bucket.
C37_Witness ==
    \E id \in ImageIds :
        /\ HasAltText(id)
        /\ db[id][1].source_url = <<UrlX>>
        /\ db[id][1].created_at = IngestedRow(UrlX).created_at
        /\ db[id][1].updated_at # <<>>
        /\ images[id] = <<StoredObject>>

\* C36: a row is created with alt_text NULL or by a fulfilled upsert, a
\* description appears in a row only by a fulfilled upsert, a row that has a
\* description keeps having one, and no row is ever removed.
C36_DescriptionPresenceIsMonotonic ==
    /\ [][\A id \in AllIds :
            /\ db[id] # <<>> => db'[id] # <<>>
            /\ HasAltText(id) => db'[id][1].alt_text # <<>>
            /\ (~HasAltText(id) /\ db'[id] # <<>> /\ db'[id][1].alt_text # <<>>)
                  => \E r \in Requests : imageId[r] = id /\ Persists(r)]_vars
    /\ [][\A u \in Uploads :
            (up[u].pc = "db.insert" /\ up'[u].pc = "done")
                => db'[up[u].imageId[1]] = <<IngestedRow(up[u].sourceUrl)>>]_vars

\* The row ingest created with alt_text NULL has a description, stored by a
\* task of a read.
C36_Witness ==
    \E id \in UploadIds :
        /\ Revealed(id)
        /\ HasAltText(id)
        /\ db[id][1].source_url = <<UrlA>>
        /\ aiRuns[id] >= 1

\* C38: every row has its blob in the bucket; the blob of an id is in the
\* bucket when its row is inserted; and a blob goes away only by the
\* rollback delete of the upload that wrote it, whose insert failed, while
\* the id has no row.
C38_EveryRecordHasItsBlob ==
    /\ [](\A id \in AllIds : db[id] # <<>> => images[id] # <<>>)
    /\ [][\A id \in AllIds :
            (db[id] = <<>> /\ db'[id] # <<>>) => images[id] # <<>>]_vars
    /\ [][\A id \in AllIds :
            (images[id] # <<>> /\ images'[id] = <<>>) =>
                /\ db[id] = <<>>
                /\ \E u \in Uploads :
                      /\ up[u].pc = "r2.delete"
                      /\ up'[u].pc = "done"
                      /\ up[u].imageId = <<id>>
                      /\ up[u].response[1].status = 503]_vars

\* One upload's row and blob are stored, and the blob another upload wrote
\* for the same URL is gone after its insert failed.
C38_Witness ==
    \E u, v \in Uploads :
        /\ u # v
        /\ Succeeded(u)
        /\ db[randomUUID(u)] # <<>>
        /\ images[randomUUID(u)] # <<>>
        /\ up[v].pc = "done"
        /\ up[v].imageId = <<randomUUID(v)>>
        /\ up[v].response[1].status = 503
        /\ images[randomUUID(v)] = <<>>
        /\ db[randomUUID(v)] = <<>>

\* The entry is a 200 response for id with the bytes and the content type of
\* the object the bucket holds for id.
IsImageOf(e, id) ==
    /\ e[1].status = 200
    /\ e[1].X_Image_Id = id
    /\ images[id] # <<>>
    /\ e[1].body = images[id][1].bytes
    /\ e[1].Content_Type = images[id][1].contentType

\* C39: every cache entry, and every response a request holds for its
\* cache.put, is a 200 response with the id of its cache key in X-Image-Id
\* and the bytes of that id's object as body.
C39_CacheHoldsOnlyImages ==
    /\ \A id \in AllIds : cache[id] # <<>> => IsImageOf(cache[id], id)
    /\ \A r \in Requests : toPut[r] # <<>> => IsImageOf(toPut[r], imageId[r])

\* The cache holds an entry for the image although a read of it was
\* answered 503.
C39_Witness ==
    \E r \in Requests :
        /\ Done(r)
        /\ response[r][1].status = 503
        /\ cache[imageId[r]] # <<>>
        /\ IsImageOf(cache[imageId[r]], imageId[r])

====
